---- MODULE Spec2Model ----

(***************************************************************************)
(* A model of .github/actions/deploy/deploy.py: the MLflowDeployer class.  *)
(* The state is the deployer's configuration (self.args), the position of  *)
(* the single thread of control inside deploy() and the functions it       *)
(* calls, the part of the cluster and of the file system the script reads  *)
(* and writes, and history variables recording the commands issued.        *)
(* Every run_command call is one step whose outcome (zero exit, non-zero   *)
(* exit, timeout) is chosen by the environment.                            *)
(***************************************************************************)
EXTENDS Integers, Sequences, FiniteSets, TLC

VARIABLES
    argv,          \* the arguments as parsed from the command line
    args,          \* self.args after __init__
    pc,            \* position of the thread of control
    error,         \* the exception in flight ("none" when there is none)
    ops,           \* history: deployment commands issued, with their outcome
    diag,          \* history: diagnostics routines entered
    ns_phase,      \* cluster: phase of the target namespace
    secrets,       \* cluster: content of each credentials secret
    created,       \* history: secrets created by this run
    mlflow_cr,     \* the custom resource built by deploy_mlflow
    warned,        \* the serveArtifacts override warning was printed
    files,         \* generated files present on disk
    cleanup_count, \* number of times cleanup_tls_certificates has run
    exit_status,   \* status passed to sys.exit (NoExit while no exit is pending)
    exit_code,     \* process exit code (-1 while the process is running)
    wait_dep,      \* wait_for_deployment_to_exist: deployment_name
    timeout,       \* wait_for_deployment_to_exist: timeout
    poll_interval, \* wait_for_deployment_to_exist: poll_interval
    elapsed_time,  \* wait_for_deployment_to_exist: elapsed_time
    wait_queries,  \* history: number of existence queries the current wait issued
    last_query,    \* history: answer to the latest existence query
    prior_secrets, \* history: the secrets as they were before the run
    invocation,    \* standalone secret model: invocations started so far
    secret_name,   \* standalone secret model: the secret being recreated
    cleanup_failed,\* history: an unlink raised in cleanup_tls_certificates
    unlinked,      \* history: files cleanup_tls_certificates called unlink on
    sink,          \* environment: GITHUB_OUTPUT ("unread" before setup_port_forward)
    outputs,       \* the lines appended to the GITHUB_OUTPUT file
    routine,       \* diagnostics: the routine running ("none" when there is none)
    pod_phase,     \* cluster: phase of each pod
    pod_names,     \* diagnostics: the pod list being iterated
    pod_index,     \* diagnostics: position in pod_names (0 outside the loop)
    status_value,  \* debug_deployment: status_value of the current pod
    ready_value,   \* is_pod_ready_for_logs: status_value of the current pod
    fetched,       \* history: sections fetched for the current pod
    attempted,     \* history: probes attempted by the routine
    escaped,       \* history: an exception left the diagnostics routine
    failures,      \* history: how the probes so far ended, taken together
    phase_changed, \* history: the current pod changed phase during its iteration
    block_raised   \* history: the probe whose exception left its own statement

waitvars == <<wait_dep, timeout, poll_interval, elapsed_time, wait_queries,
              last_query>>

cluster == <<ns_phase, secrets, created>>

secretframe == <<prior_secrets, invocation, secret_name>>

sinkvars == <<sink, outputs>>

diagvars == <<routine, pod_phase, pod_names, pod_index, status_value,
              ready_value, fetched, attempted, escaped, failures,
              phase_changed, block_raised>>

vars == <<argv, args, pc, error, ops, diag, ns_phase, secrets, created, mlflow_cr,
          warned, files, cleanup_count, exit_status, exit_code, wait_dep,
          timeout, poll_interval, elapsed_time, wait_queries, last_query,
          secretframe, cleanup_failed, unlinked, sinkvars, diagvars>>

(***************************************************************************)
(* Bounds of the standalone model of wait_for_deployment_to_exist.         *)
(***************************************************************************)
MaxTimeout == 7
MaxNegTimeout == 3
MaxPollInterval == 3

(***************************************************************************)
(* Program constants.                                                      *)
(***************************************************************************)
DefaultTimeout == 300
DefaultPollInterval == 10

(***************************************************************************)
(* Configuration: argparse choices and defaults (main), then the           *)
(* defaulting of the endpoints in __init__.                                *)
(***************************************************************************)
StoreChoices == {"sqlite", "postgres"}
ArtifactChoices == {"file", "s3"}
ServeChoices == {"true", "false"}
DefaultDestination == "file:///mlflow/artifacts"
Destinations == {DefaultDestination, "hdfs://namenode/mlflow", "file:/mlflow", ""}
S3Endpoints == {"", "http://s3.example.com:9000"}
PostgresHosts == {"", "db.example.com"}

ParseArgs(backend, registry, artifact, serve, dest, endpoint, host) ==
    [namespace             |-> "mlflow",
     mlflow_image          |-> "quay.io/opendatahub/mlflow:odh-stable",
     backend_store         |-> backend,
     registry_store        |-> registry,
     artifact_storage      |-> artifact,
     serve_artifacts       |-> serve,
     backend_store_uri     |-> "sqlite:////mlflow/mlflow.db",
     registry_store_uri    |-> "sqlite:////mlflow/mlflow.db",
     artifacts_destination |-> dest,
     postgres_host         |-> host,
     postgres_port         |-> "5432",
     postgres_user         |-> "postgres",
     postgres_password     |-> "mysecretpassword",
     postgres_backend_db   |-> "mydatabase",
     postgres_registry_db  |-> "mydatabase",
     s3_access_key         |-> "minio",
     s3_secret_key         |-> "minio123",
     s3_bucket             |-> "mlpipeline",
     s3_endpoint           |-> endpoint]

\* Variant: both endpoints derived from the namespace whatever was given.
DeployerInit_AlwaysDerive(raw) ==
    [raw EXCEPT
       !.s3_endpoint = "http://minio-service." \o raw.namespace \o ".svc.cluster.local:9000",
       !.postgres_host = "postgres-service." \o raw.namespace \o ".svc.cluster.local"]

DeployerInit(raw) ==
    [raw EXCEPT
       !.s3_endpoint = IF raw.s3_endpoint = ""
                       THEN "http://minio-service." \o raw.namespace \o ".svc.cluster.local:9000"
                       ELSE raw.s3_endpoint,
       !.postgres_host = IF raw.postgres_host = ""
                         THEN "postgres-service." \o raw.namespace \o ".svc.cluster.local"
                         ELSE raw.postgres_host]

(***************************************************************************)
(* Python string helpers.                                                  *)
(***************************************************************************)
StartsWith(s, prefix) ==
    Len(s) >= Len(prefix) /\ SubSeq(s, 1, Len(prefix)) = prefix

LowerChar(c) ==
    CASE c = "A" -> "a" [] c = "B" -> "b" [] c = "C" -> "c" [] c = "D" -> "d"
      [] c = "E" -> "e" [] c = "F" -> "f" [] c = "G" -> "g" [] c = "H" -> "h"
      [] c = "I" -> "i" [] c = "J" -> "j" [] c = "K" -> "k" [] c = "L" -> "l"
      [] c = "M" -> "m" [] c = "N" -> "n" [] c = "O" -> "o" [] c = "P" -> "p"
      [] c = "Q" -> "q" [] c = "R" -> "r" [] c = "S" -> "s" [] c = "T" -> "t"
      [] c = "U" -> "u" [] c = "V" -> "v" [] c = "W" -> "w" [] c = "X" -> "x"
      [] c = "Y" -> "y" [] c = "Z" -> "z" [] OTHER -> c

RECURSIVE StrLower(_)
StrLower(s) ==
    IF Len(s) = 0 THEN ""
    ELSE LowerChar(SubSeq(s, 1, 1)) \o StrLower(SubSeq(s, 2, Len(s)))

(***************************************************************************)
(* deploy_mlflow: the "spec" block of the custom resource.  Each part is   *)
(* the set of keys one section of the function assigns.                    *)
(***************************************************************************)
NoKeys == <<>>

use_postgres_backend(a) == a.backend_store = "postgres"
use_postgres_registry(a) == a.registry_store = "postgres"
use_s3_artifacts(a) == a.artifact_storage = "s3"

BaseSpec(a) ==
    [image |-> [image |-> a.mlflow_image, imagePullPolicy |-> "Always"]]

\* Variant: the two branches exchanged.
BackendStoreSpec_Swapped(a) ==
    IF use_postgres_backend(a)
    THEN [backendStoreUri |-> a.backend_store_uri]
    ELSE [backendStoreUriFrom |->
             [name |-> "mlflow-db-credentials", key |-> "backend-store-uri"]]

BackendStoreSpec(a) ==
    IF use_postgres_backend(a)
    THEN [backendStoreUriFrom |->
             [name |-> "mlflow-db-credentials", key |-> "backend-store-uri"]]
    ELSE [backendStoreUri |-> a.backend_store_uri]

RegistryStoreSpec(a) ==
    IF use_postgres_registry(a)
    THEN [registryStoreUriFrom |->
             [name |-> "mlflow-db-credentials", key |-> "registry-store-uri"]]
    ELSE [registryStoreUri |-> a.registry_store_uri]

\* Variant: the default root emitted whatever the serve flag.
S3ArtifactSpec_RootAlways(a) ==
    [serveArtifacts       |-> (StrLower(a.serve_artifacts) = "true"),
     artifactsDestination |-> "s3://" \o a.s3_bucket \o "/artifacts",
     defaultArtifactRoot  |-> "s3://" \o a.s3_bucket \o "/artifacts/runs",
     envFrom              |-> <<[secretRef |-> [name |-> "aws-credentials"]]>>,
     env                  |-> <<[name  |-> "MLFLOW_S3_ENDPOINT_URL",
                                 value |-> a.s3_endpoint]>>]

S3ArtifactSpec(a) ==
    [serveArtifacts       |-> (StrLower(a.serve_artifacts) = "true"),
     artifactsDestination |-> "s3://" \o a.s3_bucket \o "/artifacts",
     envFrom              |-> <<[secretRef |-> [name |-> "aws-credentials"]]>>,
     env                  |-> <<[name  |-> "MLFLOW_S3_ENDPOINT_URL",
                                 value |-> a.s3_endpoint]>>]
    @@ (IF a.serve_artifacts = "false"
        THEN [defaultArtifactRoot |-> "s3://" \o a.s3_bucket \o "/artifacts/runs"]
        ELSE NoKeys)

\* Variant: the requested flag honoured for every destination.
FileServeArtifacts_Requested(a) == StrLower(a.serve_artifacts) = "true"

FileServeArtifacts(a) ==
    IF StartsWith(a.artifacts_destination, "file://")
    THEN TRUE
    ELSE StrLower(a.serve_artifacts) = "true"

\* Variant: the default root is the destination itself.
FileArtifactSpec_RootIsDestination(a) ==
    [serveArtifacts       |-> FileServeArtifacts(a),
     artifactsDestination |-> a.artifacts_destination]
    @@ (IF a.serve_artifacts = "false"
           /\ ~StartsWith(a.artifacts_destination, "file://")
        THEN [defaultArtifactRoot |-> a.artifacts_destination]
        ELSE NoKeys)

\* Variant: the default root emitted for a file:// destination too.
FileArtifactSpec_RootWhenFalse(a) ==
    [serveArtifacts       |-> FileServeArtifacts(a),
     artifactsDestination |-> a.artifacts_destination]
    @@ (IF a.serve_artifacts = "false"
        THEN [defaultArtifactRoot |-> a.artifacts_destination \o "/runs"]
        ELSE NoKeys)

FileArtifactSpec(a) ==
    [serveArtifacts       |-> FileServeArtifacts(a),
     artifactsDestination |-> a.artifacts_destination]
    @@ (IF a.serve_artifacts = "false"
           /\ ~StartsWith(a.artifacts_destination, "file://")
        THEN [defaultArtifactRoot |-> a.artifacts_destination \o "/runs"]
        ELSE NoKeys)

ArtifactSpec(a) ==
    IF use_s3_artifacts(a) THEN S3ArtifactSpec(a) ELSE FileArtifactSpec(a)

\* Variant: the warning printed for every file:// destination.
OverrideWarning_AnyFile(a) ==
    /\ ~use_s3_artifacts(a)
    /\ StartsWith(a.artifacts_destination, "file://")

OverrideWarning(a) ==
    /\ ~use_s3_artifacts(a)
    /\ StartsWith(a.artifacts_destination, "file://")
    /\ a.serve_artifacts = "false"

\* Variant: "and" in place of "or" in the condition.
StorageSpec_AnyLocal(a) ==
    IF ~use_postgres_backend(a) /\ ~use_postgres_registry(a) /\ ~use_s3_artifacts(a)
    THEN [storage |-> [accessModes |-> <<"ReadWriteOnce">>,
                       resources |-> [requests |-> [storage |-> "10Gi"]]]]
    ELSE NoKeys

StorageSpec(a) ==
    IF ~use_postgres_backend(a) \/ ~use_postgres_registry(a) \/ ~use_s3_artifacts(a)
    THEN [storage |-> [accessModes |-> <<"ReadWriteOnce">>,
                       resources |-> [requests |-> [storage |-> "10Gi"]]]]
    ELSE NoKeys

BuildCR(a) ==
    [apiVersion |-> "mlflow.opendatahub.io/v1",
     kind       |-> "MLflow",
     metadata   |-> [name |-> "mlflow", namespace |-> a.namespace],
     spec       |-> BaseSpec(a) @@ BackendStoreSpec(a) @@ RegistryStoreSpec(a)
                    @@ ArtifactSpec(a) @@ StorageSpec(a)]

NoCR == [kind |-> "none", spec |-> NoKeys]

NoExit == 0 - 1

(***************************************************************************)
(* run_command: the environment chooses the outcome of every command.  A   *)
(* timeout always raises; a non-zero exit raises only under check=True.    *)
(***************************************************************************)
Outcomes == {"ok", "nonzero", "timeout"}

Raises(check, out) == out = "timeout" \/ (check /\ out = "nonzero")

ErrorOf(out) == IF out = "timeout" THEN "TimeoutExpired" ELSE "CalledProcessError"

\* The timeout run_command enforces: its default, or the one the call passes.
RunCommandTimeout == 300

\* Variant: the job wait left at the default timeout.
JobWaitTimeout_Default == RunCommandTimeout

JobWaitTimeout == 400

CommandTimeout(op) == IF op = "sw_job_wait" THEN JobWaitTimeout ELSE RunCommandTimeout

Issued(op, out, raised) ==
    [op |-> op, out |-> out, raised |-> raised, timeout |-> CommandTimeout(op)]

SetLast(s, out, raised) ==
    [s EXCEPT ![Len(s)] = Issued(s[Len(s)].op, out, raised)]

SecretNames == {"mlflow-db-credentials", "aws-credentials"}
TlsFiles == {"tls.crt", "tls.key"}
cr_file == "/tmp/mlflow-cr.yaml"

\* A command run with check=True that changes nothing the model tracks.
\* Variant: a failed command is issued again instead of raising.
CheckedCommand_Retry(label, okpc, failpc) ==
    /\ pc = label
    /\ \E out \in Outcomes :
         /\ ops' = Append(ops, Issued(label, out, Raises(TRUE, out)))
         /\ IF Raises(TRUE, out)
            THEN error' = error /\ pc' = label
            ELSE error' = error /\ pc' = okpc
    /\ UNCHANGED <<argv, args, diag, cluster, mlflow_cr, warned, files,
                   cleanup_count, exit_status, exit_code, waitvars,
                   secretframe, cleanup_failed, unlinked, sinkvars, diagvars>>

CheckedCommand(label, okpc, failpc) ==
    /\ pc = label
    /\ \E out \in Outcomes :
         /\ ops' = Append(ops, Issued(label, out, Raises(TRUE, out)))
         /\ IF Raises(TRUE, out)
            THEN error' = ErrorOf(out) /\ pc' = failpc
            ELSE error' = error /\ pc' = okpc
    /\ UNCHANGED <<argv, args, diag, cluster, mlflow_cr, warned, files,
                   cleanup_count, exit_status, exit_code, waitvars,
                   secretframe, cleanup_failed, unlinked, sinkvars, diagvars>>

\* A command run with check=False that changes nothing the model tracks.
UncheckedCommand(label, okpc, failpc) ==
    /\ pc = label
    /\ \E out \in Outcomes :
         /\ ops' = Append(ops, Issued(label, out, Raises(FALSE, out)))
         /\ IF Raises(FALSE, out)
            THEN error' = ErrorOf(out) /\ pc' = failpc
            ELSE error' = error /\ pc' = okpc
    /\ UNCHANGED <<argv, args, diag, cluster, mlflow_cr, warned, files,
                   cleanup_count, exit_status, exit_code, waitvars,
                   secretframe, cleanup_failed, unlinked, sinkvars, diagvars>>

(***************************************************************************)
(* deploy: the gates between the stages.                                   *)
(***************************************************************************)
\* Variant: the gate looks at the backend store only.
NeedsPostgres_BackendOnly(a) == a.backend_store = "postgres"

NeedsPostgres(a) == a.backend_store = "postgres" \/ a.registry_store = "postgres"

\* Variant: the object-store stage runs whatever the artifact storage.
NeedsS3_Always(a) == TRUE

NeedsS3(a) == a.artifact_storage = "s3"

AfterPostgresStage == IF NeedsS3(args) THEN "s3_secret_delete" ELSE "op_sed_namespace"

\* Variant: the dependency stages are block_raised.
AfterNamespace_OperatorFirst == "op_sed_namespace"

AfterNamespace == IF NeedsPostgres(args) THEN "pg_apply" ELSE AfterPostgresStage

(***************************************************************************)
(* create_namespace                                                        *)
(***************************************************************************)
\* kubectl get namespace exits 0 only when the namespace is there; the
\* function looks for the word "Active" in the output, not at the exit status.
CreateNamespaceGet ==
    /\ pc = "ns_get"
    /\ \E out \in (IF ns_phase = "absent" THEN {"nonzero", "timeout"} ELSE Outcomes) :
         /\ ops' = Append(ops, Issued("ns_get", out, Raises(FALSE, out)))
         /\ IF Raises(FALSE, out)
            THEN error' = ErrorOf(out) /\ pc' = "except"
            ELSE /\ error' = error
                 /\ pc' = IF out = "ok" /\ ns_phase = "Active"
                          THEN AfterNamespace ELSE "ns_create"
    /\ UNCHANGED <<argv, args, diag, cluster, mlflow_cr, warned, files,
                   cleanup_count, exit_status, exit_code, waitvars,
                   secretframe, cleanup_failed, unlinked, sinkvars, diagvars>>

CreateNamespaceCreate ==
    /\ pc = "ns_create"
    /\ \E out \in (IF ns_phase = "absent" THEN Outcomes ELSE {"nonzero", "timeout"}) :
         /\ ops' = Append(ops, Issued("ns_create", out, Raises(TRUE, out)))
         /\ ns_phase' = IF out = "ok" THEN "Active" ELSE ns_phase
         /\ IF Raises(TRUE, out)
            THEN error' = ErrorOf(out) /\ pc' = "except"
            ELSE error' = error /\ pc' = AfterNamespace
    /\ UNCHANGED <<argv, args, diag, secrets, created, mlflow_cr, warned, files,
                   cleanup_count, exit_status, exit_code, waitvars,
                   secretframe, cleanup_failed, unlinked, sinkvars, diagvars>>

(***************************************************************************)
(* wait_for_deployment_to_exist                                            *)
(***************************************************************************)
\* Where each caller continues when the wait returns True ...
WaitReturnPc(dep) ==
    CASE dep = "postgres-deployment" -> "pg_wait_available"
      [] dep = "seaweedfs" -> "sw_wait_available"
      [] dep = "mlflow" -> "cr_wait_available"

\* ... and the except clause of each caller that catches its exception.
WaitHandlerPc(dep) ==
    CASE dep = "postgres-deployment" -> "pg_debug"
      [] dep = "seaweedfs" -> "sw_debug"
      [] dep = "mlflow" -> "cr_debug_operator"

\* The call with the default timeout and poll interval.
CallWaitForDeploymentToExist(label, dep) ==
    /\ pc = label
    /\ pc' = "wait_loop"
    /\ ops' = Append(ops, Issued(label, "running", FALSE))
    /\ wait_dep' = dep
    /\ timeout' = DefaultTimeout
    /\ poll_interval' = DefaultPollInterval
    /\ elapsed_time' = 0
    /\ wait_queries' = 0
    /\ last_query' = "none"
    /\ UNCHANGED <<argv, args, error, diag, cluster, mlflow_cr, warned, files,
                   cleanup_count, exit_status, exit_code,
                   secretframe, cleanup_failed, unlinked, sinkvars, diagvars>>

QueryAnswers == {"exists", "absent", "error"}

\* Variant: <= in place of <.
LoopCondition_Inclusive == elapsed_time <= timeout

\* Variant: the condition tested after the first query only.
LoopCondition_AtLeastOnce == elapsed_time < timeout \/ wait_queries = 0

LoopCondition == elapsed_time < timeout

\* Variant: a query that raises is not caught and ends the wait.
WaitPoll_ErrorAborts ==
    /\ pc = "wait_loop"
    /\ LoopCondition
    /\ \E q \in QueryAnswers :
         /\ wait_queries' = wait_queries + 1
         /\ last_query' = q
         /\ IF q = "exists"
            THEN /\ pc' = "wait_return"
                 /\ ops' = SetLast(ops, "ok", FALSE)
                 /\ elapsed_time' = elapsed_time
                 /\ error' = error
            ELSE IF q = "error"
            THEN /\ pc' = "wait_raise"
                 /\ ops' = SetLast(ops, "timeout", TRUE)
                 /\ elapsed_time' = elapsed_time
                 /\ error' = "TimeoutExpired"
            ELSE /\ pc' = pc
                 /\ ops' = ops
                 /\ elapsed_time' = elapsed_time + poll_interval
                 /\ error' = error
    /\ UNCHANGED <<argv, args, diag, cluster, mlflow_cr, warned, files,
                   cleanup_count, exit_status, exit_code, wait_dep, timeout,
                   poll_interval,
                   secretframe, cleanup_failed, unlinked, sinkvars, diagvars>>

\* One iteration of the while loop: query, then return or sleep.
WaitPoll ==
    /\ pc = "wait_loop"
    /\ LoopCondition
    /\ \E q \in QueryAnswers :
         /\ wait_queries' = wait_queries + 1
         /\ last_query' = q
         /\ IF q = "exists"
            THEN /\ pc' = "wait_return"
                 /\ ops' = SetLast(ops, "ok", FALSE)
                 /\ elapsed_time' = elapsed_time
            ELSE /\ pc' = pc
                 /\ ops' = ops
                 /\ elapsed_time' = elapsed_time + poll_interval
    /\ UNCHANGED <<argv, args, error, diag, cluster, mlflow_cr, warned, files,
                   cleanup_count, exit_status, exit_code, wait_dep, timeout,
                   poll_interval,
                   secretframe, cleanup_failed, unlinked, sinkvars, diagvars>>

WaitTimeout ==
    /\ pc = "wait_loop"
    /\ ~LoopCondition
    /\ error' = "Exception"
    /\ pc' = "wait_raise"
    /\ ops' = SetLast(ops, "timeout", TRUE)
    /\ UNCHANGED <<argv, args, diag, cluster, mlflow_cr, warned, files,
                   cleanup_count, exit_status, exit_code, waitvars,
                   secretframe, cleanup_failed, unlinked, sinkvars, diagvars>>

\* The function's frame is discarded when it returns or raises into a caller.
WaitReturn ==
    /\ pc = "wait_return"
    /\ wait_dep # "standalone"
    /\ pc' = WaitReturnPc(wait_dep)
    /\ wait_dep' = "none"
    /\ timeout' = DefaultTimeout
    /\ poll_interval' = DefaultPollInterval
    /\ elapsed_time' = 0
    /\ wait_queries' = 0
    /\ last_query' = "none"
    /\ UNCHANGED <<argv, args, error, ops, diag, cluster, mlflow_cr, warned, files,
                   cleanup_count, exit_status, exit_code,
                   secretframe, cleanup_failed, unlinked, sinkvars, diagvars>>

WaitRaise ==
    /\ pc = "wait_raise"
    /\ wait_dep # "standalone"
    /\ pc' = WaitHandlerPc(wait_dep)
    /\ wait_dep' = "none"
    /\ timeout' = DefaultTimeout
    /\ poll_interval' = DefaultPollInterval
    /\ elapsed_time' = 0
    /\ wait_queries' = 0
    /\ last_query' = "none"
    /\ UNCHANGED <<argv, args, error, ops, diag, cluster, mlflow_cr, warned, files,
                   cleanup_count, exit_status, exit_code,
                   secretframe, cleanup_failed, unlinked, sinkvars, diagvars>>

(***************************************************************************)
(* The pods the diagnostics routines look at.                              *)
(***************************************************************************)
Pods == {"pod-0", "pod-1"}

PodLists == {<<>>, <<"pod-0">>, <<"pod-0", "pod-1">>}

PodPhases == {"Pending", "Running", "Succeeded", "Failed", "Unknown"}

NoDiagnostics ==
    /\ routine = "none"
    /\ pod_phase = [p \in Pods |-> "Running"]
    /\ pod_names = <<>>
    /\ pod_index = 0
    /\ status_value = "unset"
    /\ ready_value = "unset"
    /\ fetched = {}
    /\ attempted = {}
    /\ escaped = FALSE
    /\ failures = "all_timed_out"
    /\ phase_changed = FALSE
    /\ block_raised = "none"

(***************************************************************************)
(* The diagnostics probes.  Every probe is a run_command call with         *)
(* check=False, so it raises only when it times out.  OwnGuard names the   *)
(* probes that sit in a try/except of their own (directly, or inside the   *)
(* helper that issues them); the others are guarded only by what encloses  *)
(* the whole routine.                                                      *)
(***************************************************************************)
pipelinevars == <<argv, args, error, ops, diag, cluster, mlflow_cr, warned, files,
                  cleanup_count, exit_status, exit_code, waitvars,
                  secretframe, cleanup_failed, unlinked, sinkvars>>

NoPod == "-"

\* stdout and stderr are merged: a pod query that fails can return the
\* words of its error message as pod names.
NotAPod == "error:"

ProbeOutcomes(pod) == IF pod = NotAPod THEN {"nonzero", "timeout"} ELSE Outcomes

\* The pod list a pod query returns.
PodQueryResults(out) ==
    CASE out = "ok" -> PodLists
      [] out = "nonzero" -> {<<>>, <<NotAPod>>}
      [] OTHER -> {<<>>}

\* The text a phase query returns.
PhaseQueryResult(pod, out) ==
    CASE out = "ok" -> pod_phase[pod]
      [] out = "nonzero" -> "Error from server"
      [] OTHER -> "unset"

\* How a run of probes ended: every one timed out, every one failed (by
\* timeout or non-zero exit), or at least one returned output.
Worst(sofar, out) ==
    CASE out = "ok" -> "some_ok"
      [] out = "nonzero" -> IF sofar = "some_ok" THEN "some_ok" ELSE "all_failed"
      [] OTHER -> sofar

\* Variant: the custom resource query outside a try block.
OwnGuard_NoCrStatus ==
    {"describe_deployment", "get_pods_for_deployment", "describe_pod",
     "pod_phase", "get_pod_events", "is_pod_ready_for_logs",
     "get_pod_logs", "get_pods_with_label_selector"}

\* Variant: the pod description outside a try block.
OwnGuard_NoPodDescription ==
    {"describe_deployment", "get_pods_for_deployment",
     "pod_phase", "get_pod_events", "is_pod_ready_for_logs",
     "get_pod_logs", "get_pods_with_label_selector", "describe_mlflow"}

OwnGuard == {"describe_deployment", "get_pods_for_deployment", "describe_pod",
             "pod_phase", "get_pod_events", "is_pod_ready_for_logs",
             "get_pod_logs", "get_pods_with_label_selector", "describe_mlflow"}

\* The bookkeeping of one probe, and where control goes after it: okpc
\* when the command returned, caughtpc when it raised inside its own
\* try/except, otherwise the enclosing handler or out of the routine.
Probe(kind, pod, out, okpc, caughtpc) ==
    /\ attempted' = attempted \cup {<<kind, pod>>}
    /\ failures' = Worst(failures, out)
    /\ block_raised' = IF out = "timeout" /\ kind \notin OwnGuard
                       THEN kind ELSE block_raised
    /\ IF out # "timeout"
       THEN pc' = okpc /\ escaped' = escaped
       ELSE IF kind \in OwnGuard
       THEN pc' = caughtpc /\ escaped' = escaped
       ELSE IF routine = "seaweedfs_init_job"
       THEN pc' = "jd_except" /\ escaped' = escaped
       ELSE pc' = "diag_raised" /\ escaped' = TRUE

CurrentPod == pod_names[pod_index]

\* The cluster moves on while the diagnostics run.
PodPhaseChanges ==
    /\ routine # "none"
    /\ pc \notin {"diag_done", "diag_raised"}
    /\ \E p \in Pods, ph \in PodPhases :
         /\ ph # pod_phase[p]
         /\ pod_phase' = [pod_phase EXCEPT ![p] = ph]
         /\ phase_changed' = (phase_changed \/ (pod_index > 0 /\ CurrentPod = p))
    /\ UNCHANGED <<pc, pipelinevars, routine, pod_names, pod_index, status_value,
                   ready_value, fetched, attempted, escaped, failures, block_raised>>

(***************************************************************************)
(* debug_deployment                                                        *)
(***************************************************************************)
DdReturnPc == IF routine = "_debug_operator_logs" THEN "do_pods" ELSE "diag_done"

DdStatus ==
    /\ pc = "dd_status"
    /\ \E out \in Outcomes :
         Probe("describe_deployment", NoPod, out, "dd_pods", "dd_pods")
    /\ UNCHANGED <<pipelinevars, routine, pod_phase, pod_names, pod_index,
                   status_value, ready_value, fetched, phase_changed>>

DdGetPods ==
    /\ pc = "dd_pods"
    /\ \E out \in Outcomes : \E found \in PodQueryResults(out) :
         /\ pod_names' = found
         /\ pod_index' = IF found = <<>> THEN 0 ELSE 1
         /\ LET nextpc == IF found = <<>> THEN DdReturnPc ELSE "dd_describe"
            IN  Probe("get_pods_for_deployment", NoPod, out, nextpc, nextpc)
    /\ UNCHANGED <<pipelinevars, routine, pod_phase, status_value, ready_value,
                   fetched, phase_changed>>

DdDescribePod ==
    /\ pc = "dd_describe"
    /\ \E out \in ProbeOutcomes(CurrentPod) :
         Probe("describe_pod", CurrentPod, out, "dd_phase", "dd_phase")
    /\ UNCHANGED <<pipelinevars, routine, pod_phase, pod_names, pod_index,
                   status_value, ready_value, fetched, phase_changed>>

\* Variant: events are fetched for Failed pods only.
EventsPhases_FailedOnly == {"Failed"}

EventsPhases == {"Failed", "Pending"}

LogsPhases == {"Running", "Succeeded", "Failed"}

DdPhase ==
    /\ pc = "dd_phase"
    /\ \E out \in ProbeOutcomes(CurrentPod) :
         /\ status_value' = PhaseQueryResult(CurrentPod, out)
         /\ Probe("pod_phase", CurrentPod, out,
                  IF status_value' \in EventsPhases THEN "dd_events" ELSE "dd_ready",
                  "dd_ready")
    /\ UNCHANGED <<pipelinevars, routine, pod_phase, pod_names, pod_index,
                   ready_value, fetched, phase_changed>>

DdEvents ==
    /\ pc = "dd_events"
    /\ \E out \in ProbeOutcomes(CurrentPod) :
         Probe("get_pod_events", CurrentPod, out, "dd_ready", "dd_ready")
    /\ fetched' = fetched \cup {"events"}
    /\ UNCHANGED <<pipelinevars, routine, pod_phase, pod_names, pod_index,
                   status_value, ready_value, phase_changed>>

DdReady ==
    /\ pc = "dd_ready"
    /\ \E out \in ProbeOutcomes(CurrentPod) :
         /\ ready_value' = PhaseQueryResult(CurrentPod, out)
         /\ Probe("is_pod_ready_for_logs", CurrentPod, out,
                  IF ready_value' \in LogsPhases THEN "dd_logs" ELSE "dd_next",
                  "dd_next")
    /\ UNCHANGED <<pipelinevars, routine, pod_phase, pod_names, pod_index,
                   status_value, fetched, phase_changed>>

DdLogs ==
    /\ pc = "dd_logs"
    /\ \E out \in ProbeOutcomes(CurrentPod) :
         Probe("get_pod_logs", CurrentPod, out, "dd_next", "dd_next")
    /\ fetched' = fetched \cup {"logs"}
    /\ UNCHANGED <<pipelinevars, routine, pod_phase, pod_names, pod_index,
                   status_value, ready_value, phase_changed>>

\* The end of one iteration of the for loop: the next pod, or return.
DdNextPod ==
    /\ pc = "dd_next"
    /\ IF pod_index < Len(pod_names)
       THEN /\ pod_index' = pod_index + 1
            /\ pod_names' = pod_names
            /\ pc' = "dd_describe"
       ELSE /\ pod_index' = 0
            /\ pod_names' = <<>>
            /\ pc' = DdReturnPc
    /\ status_value' = "unset"
    /\ ready_value' = "unset"
    /\ fetched' = {}
    /\ phase_changed' = FALSE
    /\ UNCHANGED <<pipelinevars, routine, pod_phase, attempted, escaped,
                   failures, block_raised>>

(***************************************************************************)
(* _debug_operator_logs: debug_deployment on the operator, then the pods   *)
(* found by label, then the custom resource.                               *)
(***************************************************************************)
DoGetPods ==
    /\ pc = "do_pods"
    /\ \E out \in Outcomes : \E found \in PodQueryResults(out) :
         /\ pod_names' = found
         /\ pod_index' = IF found = <<>> THEN 0 ELSE 1
         /\ LET nextpc == IF found = <<>> THEN "do_cr_status" ELSE "do_describe"
            IN  Probe("get_pods_with_label_selector", NoPod, out, nextpc, nextpc)
    /\ UNCHANGED <<pipelinevars, routine, pod_phase, status_value, ready_value,
                   fetched, phase_changed>>

DoDescribePod ==
    /\ pc = "do_describe"
    /\ \E out \in ProbeOutcomes(CurrentPod) :
         Probe("describe_pod", CurrentPod, out, "do_ready", "do_ready")
    /\ UNCHANGED <<pipelinevars, routine, pod_phase, pod_names, pod_index,
                   status_value, ready_value, fetched, phase_changed>>

DoReady ==
    /\ pc = "do_ready"
    /\ \E out \in ProbeOutcomes(CurrentPod) :
         /\ ready_value' = PhaseQueryResult(CurrentPod, out)
         /\ Probe("is_pod_ready_for_logs", CurrentPod, out,
                  IF ready_value' \in LogsPhases THEN "do_logs" ELSE "do_next",
                  "do_next")
    /\ UNCHANGED <<pipelinevars, routine, pod_phase, pod_names, pod_index,
                   status_value, fetched, phase_changed>>

DoLogs ==
    /\ pc = "do_logs"
    /\ \E out \in ProbeOutcomes(CurrentPod) :
         Probe("get_pod_logs", CurrentPod, out, "do_next", "do_next")
    /\ fetched' = fetched \cup {"logs"}
    /\ UNCHANGED <<pipelinevars, routine, pod_phase, pod_names, pod_index,
                   status_value, ready_value, phase_changed>>

DoNextPod ==
    /\ pc = "do_next"
    /\ IF pod_index < Len(pod_names)
       THEN /\ pod_index' = pod_index + 1
            /\ pod_names' = pod_names
            /\ pc' = "do_describe"
       ELSE /\ pod_index' = 0
            /\ pod_names' = <<>>
            /\ pc' = "do_cr_status"
    /\ ready_value' = "unset"
    /\ fetched' = {}
    /\ phase_changed' = FALSE
    /\ UNCHANGED <<pipelinevars, routine, pod_phase, status_value, attempted,
                   escaped, failures, block_raised>>

DoCrStatus ==
    /\ pc = "do_cr_status"
    /\ \E out \in Outcomes :
         Probe("describe_mlflow", NoPod, out, "diag_done", "diag_done")
    /\ UNCHANGED <<pipelinevars, routine, pod_phase, pod_names, pod_index,
                   status_value, ready_value, fetched, phase_changed>>

(***************************************************************************)
(* deploy_seaweedfs: the diagnostics of the init job, all inside one try   *)
(* block whose handler prints the failure.                                 *)
(***************************************************************************)
\* The probes issued directly by the block, outside any loop.
StraightLabels == {"jd_describe_job", "jd_minio_svc", "jd_minio_endpoints",
                   "jd_seaweed_endpoints", "jd_endpoint_test", "jd_dns_test",
                   "jd_all_pods"}

StraightKind(label) ==
    CASE label = "jd_describe_job" -> "describe_job"
      [] label = "jd_minio_svc" -> "minio_service"
      [] label = "jd_minio_endpoints" -> "minio_endpoints"
      [] label = "jd_seaweed_endpoints" -> "seaweedfs_endpoints"
      [] label = "jd_endpoint_test" -> "endpoint_test"
      [] label = "jd_dns_test" -> "dns_test"
      [] label = "jd_all_pods" -> "all_pods"

StraightNext(label) ==
    CASE label = "jd_describe_job" -> "jd_job_pods"
      [] label = "jd_minio_svc" -> "jd_minio_endpoints"
      [] label = "jd_minio_endpoints" -> "jd_seaweed_endpoints"
      [] label = "jd_seaweed_endpoints" -> "jd_sw_pods"
      [] label = "jd_endpoint_test" -> "jd_dns_test"
      [] label = "jd_dns_test" -> "jd_all_pods"
      [] label = "jd_all_pods" -> "diag_done"

JdStraightProbe ==
    /\ pc \in StraightLabels
    /\ \E out \in Outcomes :
         Probe(StraightKind(pc), NoPod, out, StraightNext(pc), StraightNext(pc))
    /\ UNCHANGED <<pipelinevars, routine, pod_phase, pod_names, pod_index,
                   status_value, ready_value, fetched, phase_changed>>

JdJobPods ==
    /\ pc = "jd_job_pods"
    /\ \E out \in Outcomes : \E found \in PodQueryResults(out) :
         /\ pod_names' = found
         /\ pod_index' = IF found = <<>> THEN 0 ELSE 1
         /\ LET nextpc == IF found = <<>> THEN "jd_job_pods_alt" ELSE "jd_job_logs"
            IN  Probe("get_pods_with_label_selector", NoPod, out, nextpc, nextpc)
    /\ UNCHANGED <<pipelinevars, routine, pod_phase, status_value, ready_value,
                   fetched, phase_changed>>

\* The second selector; only names containing "seaweedfs" are kept, which
\* drops the words of an error message.
JdJobPodsAlt ==
    /\ pc = "jd_job_pods_alt"
    /\ \E out \in Outcomes : \E found \in PodQueryResults(out) \ {<<NotAPod>>} :
         /\ pod_names' = found
         /\ pod_index' = IF found = <<>> THEN 0 ELSE 1
         /\ LET nextpc == IF found = <<>> THEN "jd_minio_svc" ELSE "jd_job_logs"
            IN  Probe("get_pods_with_label_selector", NoPod, out, nextpc, nextpc)
    /\ UNCHANGED <<pipelinevars, routine, pod_phase, status_value, ready_value,
                   fetched, phase_changed>>

JdJobLogs ==
    /\ pc = "jd_job_logs"
    /\ LET last == pod_index = Len(pod_names)
           nextpc == IF last THEN "jd_minio_svc" ELSE "jd_job_logs"
       IN  /\ \E out \in ProbeOutcomes(CurrentPod) :
                Probe("get_pod_logs", CurrentPod, out, nextpc, nextpc)
           /\ pod_index' = IF last THEN 0 ELSE pod_index + 1
           /\ pod_names' = IF last THEN <<>> ELSE pod_names
    /\ UNCHANGED <<pipelinevars, routine, pod_phase, status_value, ready_value,
                   fetched, phase_changed>>

JdSwPods ==
    /\ pc = "jd_sw_pods"
    /\ \E out \in Outcomes : \E found \in PodQueryResults(out) :
         /\ pod_names' = found
         /\ pod_index' = IF found = <<>> THEN 0 ELSE 1
         /\ LET nextpc == IF found = <<>> THEN "jd_endpoint_test" ELSE "jd_pod_status"
            IN  Probe("get_pods_for_deployment", NoPod, out, nextpc, nextpc)
    /\ UNCHANGED <<pipelinevars, routine, pod_phase, status_value, ready_value,
                   fetched, phase_changed>>

JdPodStatus ==
    /\ pc = "jd_pod_status"
    /\ \E out \in ProbeOutcomes(CurrentPod) :
         Probe("pod_wide", CurrentPod, out, "jd_pod_logs", "jd_pod_logs")
    /\ UNCHANGED <<pipelinevars, routine, pod_phase, pod_names, pod_index,
                   status_value, ready_value, fetched, phase_changed>>

JdPodLogs ==
    /\ pc = "jd_pod_logs"
    /\ \E out \in ProbeOutcomes(CurrentPod) :
         Probe("get_pod_logs", CurrentPod, out, "jd_pod_events", "jd_pod_events")
    /\ UNCHANGED <<pipelinevars, routine, pod_phase, pod_names, pod_index,
                   status_value, ready_value, fetched, phase_changed>>

JdPodEvents ==
    /\ pc = "jd_pod_events"
    /\ \E out \in ProbeOutcomes(CurrentPod) :
         Probe("pod_events", CurrentPod, out, "jd_pod_ip", "jd_pod_ip")
    /\ UNCHANGED <<pipelinevars, routine, pod_phase, pod_names, pod_index,
                   status_value, ready_value, fetched, phase_changed>>

\* After the last probe of an iteration over the SeaweedFS pods.
JdAfterPod == IF pod_index < Len(pod_names) THEN "jd_pod_status" ELSE "jd_endpoint_test"

\* The pod IP query; a non-zero exit leaves the error text in stdout, and
\* the connectivity test runs whenever stdout is not empty.
JdPodIp ==
    /\ pc = "jd_pod_ip"
    /\ \E out \in ProbeOutcomes(CurrentPod), text \in BOOLEAN :
         /\ out = "nonzero" => text
         /\ LET nextpc == IF text THEN "jd_direct_test" ELSE JdAfterPod
            IN  /\ Probe("pod_ip", CurrentPod, out, nextpc, nextpc)
                /\ pod_index' = IF out # "timeout" /\ nextpc = "jd_pod_status"
                                THEN pod_index + 1 ELSE pod_index
    /\ UNCHANGED <<pipelinevars, routine, pod_phase, pod_names, status_value,
                   ready_value, fetched, phase_changed>>

JdDirectTest ==
    /\ pc = "jd_direct_test"
    /\ \E out \in Outcomes :
         /\ Probe("direct_test", CurrentPod, out, JdAfterPod, JdAfterPod)
         /\ pod_index' = IF out # "timeout" /\ JdAfterPod = "jd_pod_status"
                         THEN pod_index + 1 ELSE pod_index
    /\ UNCHANGED <<pipelinevars, routine, pod_phase, pod_names, status_value,
                   ready_value, fetched, phase_changed>>

\* The probes a complete pass over the block issues whatever it finds.
JobProbes == {"describe_job", "get_pods_with_label_selector", "minio_service",
              "minio_endpoints", "seaweedfs_endpoints", "get_pods_for_deployment",
              "endpoint_test", "dns_test", "all_pods"}

AttemptedKinds == {a[1] : a \in attempted}

\* Variant: the handler of the block lets the failure of a probe out.
JdExcept_Propagates ==
    /\ pc = "jd_except"
    /\ pc' = "diag_raised"
    /\ escaped' = TRUE
    /\ UNCHANGED <<pipelinevars, routine, pod_phase, pod_names, pod_index,
                   status_value, ready_value, fetched, attempted, failures,
                   phase_changed, block_raised>>

\* except Exception as debug_e: print; the probes not yet issued are left out.
JdExcept ==
    /\ pc = "jd_except"
    /\ pc' = "diag_done"
    /\ UNCHANGED <<pipelinevars, diagvars>>

(***************************************************************************)
(* Diagnostics entry points in the deployment run: each routine runs to    *)
(* completion and returns to the handler that called it, which re-raises.  *)
(* The probes inside the routines are the actions of SpecDiag.             *)
(***************************************************************************)
Diagnose(label, what, nextpc) ==
    /\ pc = label
    /\ diag' = Append(diag, what)
    /\ pc' = nextpc
    /\ UNCHANGED <<argv, args, error, ops, cluster, mlflow_cr, warned, files,
                   cleanup_count, exit_status, exit_code, waitvars,
                   secretframe, cleanup_failed, unlinked, sinkvars, diagvars>>

(***************************************************************************)
(* deploy_postgres, create_postgres_secret                                 *)
(***************************************************************************)
\* Variant: the secret is recreated right after the apply, before the waits.
DeployPostgresApply_SecretFirst ==
    /\ pc = "pg_apply"
    /\ CheckedCommand("pg_apply", "pg_secret_delete", "except")

DeployPostgresApply ==
    /\ pc = "pg_apply"
    /\ CheckedCommand("pg_apply", "pg_wait_exist", "except")

PgWaitExist ==
    /\ pc = "pg_wait_exist"
    /\ CallWaitForDeploymentToExist("pg_wait_exist", "postgres-deployment")

\* Variant: the availability wait outside the try block.
PgWaitAvailable_NoDebug ==
    /\ pc = "pg_wait_available"
    /\ CheckedCommand("pg_wait_available", "pg_secret_delete", "except")

PgWaitAvailable ==
    /\ pc = "pg_wait_available"
    /\ CheckedCommand("pg_wait_available", "pg_secret_delete", "pg_debug")

PgDebug ==
    /\ pc = "pg_debug"
    /\ Diagnose("pg_debug", "debug_deployment:postgres-deployment", "except")
\* urllib.parse.quote_plus on the characters the credentials use: letters,
\* digits and "_.-~" are kept, a space becomes "+", and the others are
\* percent-encoded.
QuoteChar(c) ==
    CASE c = " " -> "+"
      [] c = "@" -> "%40"
      [] c = "/" -> "%2F"
      [] c = ":" -> "%3A"
      [] c = ";" -> "%3B"
      [] OTHER -> c

RECURSIVE quote_plus(_)
quote_plus(s) ==
    IF Len(s) = 0 THEN ""
    ELSE QuoteChar(SubSeq(s, 1, 1)) \o quote_plus(SubSeq(s, 2, Len(s)))

PostgresUri(a, db) ==
    "postgresql://" \o quote_plus(a.postgres_user) \o ":"
        \o quote_plus(a.postgres_password) \o "@" \o a.postgres_host \o ":"
        \o a.postgres_port \o "/" \o db

\* The --from-literal arguments of each kubectl create secret.
SecretData(name, a) ==
    IF name = "mlflow-db-credentials"
    THEN <<"backend-store-uri=" \o PostgresUri(a, a.postgres_backend_db),
           "registry-store-uri=" \o PostgresUri(a, a.postgres_registry_db)>>
    ELSE <<"AWS_ACCESS_KEY_ID=" \o a.s3_access_key,
           "AWS_SECRET_ACCESS_KEY=" \o a.s3_secret_key>>

\* A secret of the cluster: absent, left by an earlier run, or created now.
NoSecret == [present |-> FALSE, data |-> <<>>]

OldSecret == [present |-> TRUE, data |-> <<"left-by-an-earlier-run">>]

Secret(d) == [present |-> TRUE, data |-> d]

\* Variant: the delete is not issued.
SecretDelete_Skipped(label, name, okpc) ==
    /\ pc = label
    /\ pc' = okpc
    /\ UNCHANGED <<argv, args, error, ops, diag, cluster, mlflow_cr, warned, files,
                   cleanup_count, exit_status, exit_code, waitvars,
                   secretframe, cleanup_failed, unlinked, sinkvars, diagvars>>

\* kubectl delete secret, check=False: exit 0 only when the secret was there.
\* A delete that times out may or may not have removed the secret.
SecretDelete(label, name, okpc) ==
    /\ pc = label
    /\ \E out \in (IF secrets[name].present THEN Outcomes ELSE {"nonzero", "timeout"}),
          gone \in BOOLEAN :
         /\ out = "ok" => gone
         /\ out = "nonzero" => ~gone
         /\ ops' = Append(ops, Issued(label, out, Raises(FALSE, out)))
         /\ secrets' = IF gone THEN [secrets EXCEPT ![name] = NoSecret] ELSE secrets
         /\ IF Raises(FALSE, out)
            THEN error' = ErrorOf(out) /\ pc' = "except"
            ELSE error' = error /\ pc' = okpc
    /\ UNCHANGED <<argv, args, diag, ns_phase, created, mlflow_cr, warned, files,
                   cleanup_count, exit_status, exit_code, waitvars,
                   secretframe, cleanup_failed, unlinked, sinkvars, diagvars>>

\* kubectl create secret, check=True: exit 0 only when no such secret was there.
SecretCreate(label, name, okpc) ==
    /\ pc = label
    /\ \E out \in (IF secrets[name].present THEN {"nonzero", "timeout"} ELSE Outcomes) :
         /\ ops' = Append(ops, Issued(label, out, Raises(TRUE, out)))
         /\ secrets' = IF out = "ok"
                       THEN [secrets EXCEPT ![name] = Secret(SecretData(name, args))]
                       ELSE secrets
         /\ created' = IF out = "ok" THEN created \cup {name} ELSE created
         /\ IF Raises(TRUE, out)
            THEN error' = ErrorOf(out) /\ pc' = "except"
            ELSE error' = error /\ pc' = okpc
    /\ UNCHANGED <<argv, args, diag, ns_phase, mlflow_cr, warned, files,
                   cleanup_count, exit_status, exit_code, waitvars,
                   secretframe, cleanup_failed, unlinked, sinkvars, diagvars>>

CreatePostgresSecretDelete ==
    /\ pc = "pg_secret_delete"
    /\ SecretDelete("pg_secret_delete", "mlflow-db-credentials", "pg_secret_create")

CreatePostgresSecretCreate ==
    /\ pc = "pg_secret_create"
    /\ SecretCreate("pg_secret_create", "mlflow-db-credentials", AfterPostgresStage)

(***************************************************************************)
(* create_s3_secret, deploy_seaweedfs                                      *)
(***************************************************************************)
CreateS3SecretDelete ==
    /\ pc = "s3_secret_delete"
    /\ SecretDelete("s3_secret_delete", "aws-credentials", "s3_secret_create")

CreateS3SecretCreate ==
    /\ pc = "s3_secret_create"
    /\ SecretCreate("s3_secret_create", "aws-credentials", "sw_job_delete")

SwJobDelete ==
    /\ pc = "sw_job_delete"
    /\ UncheckedCommand("sw_job_delete", "sw_apply", "except")

DeploySeaweedfsApply ==
    /\ pc = "sw_apply"
    /\ CheckedCommand("sw_apply", "sw_wait_exist", "except")

SwWaitExist ==
    /\ pc = "sw_wait_exist"
    /\ CallWaitForDeploymentToExist("sw_wait_exist", "seaweedfs")

SwWaitAvailable ==
    /\ pc = "sw_wait_available"
    /\ CheckedCommand("sw_wait_available", "sw_job_wait", "sw_debug")

SwDebug ==
    /\ pc = "sw_debug"
    /\ Diagnose("sw_debug", "debug_deployment:seaweedfs", "except")

SwJobWait ==
    /\ pc = "sw_job_wait"
    /\ CheckedCommand("sw_job_wait", "op_sed_namespace", "sw_job_debug")

SwJobDebug ==
    /\ pc = "sw_job_debug"
    /\ Diagnose("sw_job_debug", "seaweedfs_init_job_diagnostics", "except")

(***************************************************************************)
(* deploy_mlflow_operator, generate_tls_certificates                       *)
(***************************************************************************)
OpSedNamespace ==
    /\ pc = "op_sed_namespace"
    /\ CheckedCommand("op_sed_namespace", "op_sed_image", "except")

OpSedImage ==
    /\ pc = "op_sed_image"
    /\ CheckedCommand("op_sed_image", "tls_chmod", "except")

TlsChmod ==
    /\ pc = "tls_chmod"
    /\ CheckedCommand("tls_chmod", "tls_generate", "except")
\* The script writes tls.crt and tls.key; the function then verifies both.
TlsGenerate ==
    /\ pc = "tls_generate"
    /\ \E out \in Outcomes, made \in SUBSET TlsFiles :
         /\ files' = files \cup made
         /\ IF Raises(TRUE, out)
            THEN /\ ops' = Append(ops, Issued("tls_generate", out, TRUE))
                 /\ error' = ErrorOf(out)
                 /\ pc' = "except"
            ELSE IF ~(TlsFiles \subseteq files')
            THEN /\ ops' = Append(ops, Issued("tls_generate", "missing", TRUE))
                 /\ error' = "Exception"
                 /\ pc' = "except"
            ELSE /\ ops' = Append(ops, Issued("tls_generate", out, FALSE))
                 /\ error' = error
                 /\ pc' = "op_apply"
    /\ UNCHANGED <<argv, args, diag, cluster, mlflow_cr, warned, cleanup_count,
                   exit_status, exit_code, waitvars,
                   secretframe, cleanup_failed, unlinked, sinkvars, diagvars>>

DeployOperatorApply ==
    /\ pc = "op_apply"
    /\ CheckedCommand("op_apply", "op_wait_available", "except")

OpWaitAvailable ==
    /\ pc = "op_wait_available"
    /\ CheckedCommand("op_wait_available", "cr_build", "op_debug")

OpDebug ==
    /\ pc = "op_debug"
    /\ Diagnose("op_debug", "debug_deployment:mlflow-operator-controller-manager", "except")

(***************************************************************************)
(* deploy_mlflow                                                           *)
(***************************************************************************)
WriteCR ==
    /\ pc = "cr_build"
    /\ mlflow_cr' = BuildCR(args)
    /\ warned' = OverrideWarning(args)
    /\ files' = files \cup {cr_file}
    /\ pc' = "cr_apply"
    /\ UNCHANGED <<argv, args, error, ops, diag, cluster, cleanup_count, exit_status,
                   exit_code, waitvars,
                   secretframe, cleanup_failed, unlinked, sinkvars, diagvars>>

ApplyCR ==
    /\ pc = "cr_apply"
    /\ CheckedCommand("cr_apply", "cr_wait_exist", "except")

CrWaitExist ==
    /\ pc = "cr_wait_exist"
    /\ CallWaitForDeploymentToExist("cr_wait_exist", "mlflow")

CrDebugOperator ==
    /\ pc = "cr_debug_operator"
    /\ Diagnose("cr_debug_operator", "_debug_operator_logs", "except")

CrWaitAvailable ==
    /\ pc = "cr_wait_available"
    /\ CheckedCommand("cr_wait_available", "svc_get", "cr_debug_mlflow")

CrDebugMlflow ==
    /\ pc = "cr_debug_mlflow"
    /\ Diagnose("cr_debug_mlflow", "debug_deployment:mlflow", "except")

(***************************************************************************)
(* setup_port_forward: a failed service query is caught and the function   *)
(* returns; deploy then prints its success message and leaves the try.     *)
(***************************************************************************)
\* What os.getenv('GITHUB_OUTPUT') can name: nothing, a file that can be
\* appended to, or a path that cannot be opened.
SinkStates == {"unset", "writable", "unwritable"}

SuccessOutputs(a) == <<"mlflow_url=http://localhost:8080", "namespace=" \o a.namespace>>

\* The open/write of lines 707-709 as an operation of the run.
WriteOutputs(s) ==
    CASE s = "writable" -> <<Issued("write_outputs", "ok", FALSE)>>
      [] s = "unwritable" -> <<Issued("write_outputs", "error", TRUE)>>
      [] OTHER -> <<>>

\* Nothing reads GITHUB_OUTPUT before this function, so the value the
\* environment gives it is drawn here, whether or not the code reads it.
SetupPortForward ==
    /\ pc = "svc_get"
    /\ \E out \in Outcomes, s \in SinkStates :
         IF Raises(TRUE, out)
         THEN \* except Exception: print, return
              /\ ops' = Append(ops, Issued("svc_get", out, FALSE))
              /\ sink' = s
              /\ UNCHANGED <<outputs, error>>
              /\ pc' = "finally"
         ELSE /\ ops' = Append(ops, Issued("svc_get", out, FALSE)) \o WriteOutputs(s)
              /\ sink' = s
              /\ outputs' = IF s = "writable"
                             THEN outputs \o SuccessOutputs(args)
                             ELSE outputs
              /\ error' = IF s = "unwritable" THEN "OSError" ELSE error
              /\ pc' = IF s = "unwritable" THEN "except" ELSE "finally"
    /\ UNCHANGED <<argv, args, diag, cluster, mlflow_cr, warned, files,
                   cleanup_count, exit_status, exit_code, waitvars,
                   secretframe, cleanup_failed, unlinked, diagvars>>

(***************************************************************************)
(* deploy: except, finally, process exit                                   *)
(***************************************************************************)
\* Variant: the process ends inside the except clause, skipping finally.
HandleException_ExitAtOnce ==
    /\ pc = "except"
    /\ exit_status' = 1
    /\ pc' = "exit"
    /\ UNCHANGED <<argv, args, error, ops, diag, cluster, mlflow_cr, warned, files,
                   cleanup_count, exit_code, waitvars,
                   secretframe, cleanup_failed, unlinked, sinkvars, diagvars>>

\* Variant: the except clause without sys.exit(1).
HandleException_Swallow ==
    /\ pc = "except"
    /\ pc' = "finally"
    /\ UNCHANGED <<argv, args, error, ops, diag, cluster, mlflow_cr, warned, files,
                   cleanup_count, exit_status, exit_code, waitvars,
                   secretframe, cleanup_failed, unlinked, sinkvars, diagvars>>

\* except Exception: print the failure, sys.exit(1); SystemExit unwinds
\* through the finally clause.
HandleException ==
    /\ pc = "except"
    /\ exit_status' = 1
    /\ pc' = "finally"
    /\ UNCHANGED <<argv, args, error, ops, diag, cluster, mlflow_cr, warned, files,
                   cleanup_count, exit_code, waitvars,
                   secretframe, cleanup_failed, unlinked, sinkvars, diagvars>>

\* Variant: only the certificate is unlinked.
CleanupResults_CertificateOnly(fs) ==
    {[left |-> fs \ {"tls.crt"}, failed |-> FALSE, unlinked |-> fs \cap {"tls.crt"}]}

\* cleanup_tls_certificates: unlink tls.crt, then tls.key, inside one try
\* block; an unlink that raises ends the block, and the exception is caught.
\* Each result is the files left on disk, whether an unlink raised, and the
\* files unlink was called on.
CleanupResults(fs) ==
    LET crt == "tls.crt" \in fs
        key == "tls.key" \in fs
    IN  {[left |-> fs \ TlsFiles, failed |-> FALSE, unlinked |-> fs \cap TlsFiles]}
        \cup (IF crt
              THEN {[left |-> fs, failed |-> TRUE, unlinked |-> {"tls.crt"}]}
              ELSE {})
        \cup (IF key
              THEN {[left |-> fs \ {"tls.crt"}, failed |-> TRUE,
                     unlinked |-> fs \cap TlsFiles]}
              ELSE {})

Finally ==
    /\ pc = "finally"
    /\ cleanup_count' = cleanup_count + 1
    /\ \E r \in CleanupResults(files) :
         /\ files' = r.left
         /\ cleanup_failed' = r.failed
         /\ unlinked' = r.unlinked
    /\ pc' = "exit"
    /\ UNCHANGED <<argv, args, error, ops, diag, cluster, mlflow_cr, warned,
                   exit_status, exit_code, waitvars,
                   secretframe, sinkvars, diagvars>>

Exit ==
    /\ pc = "exit"
    /\ exit_code' = IF exit_status = NoExit THEN 0 ELSE exit_status
    /\ pc' = "exited"
    /\ UNCHANGED <<argv, args, error, ops, diag, cluster, mlflow_cr, warned, files,
                   cleanup_count, exit_status, waitvars,
                   secretframe, cleanup_failed, unlinked, sinkvars, diagvars>>

(***************************************************************************)
(* The deployment run: main() parses the arguments, builds the deployer    *)
(* and calls deploy().  The cluster may hold a namespace and secrets left  *)
(* by an earlier run.                                                      *)
(***************************************************************************)
NamespacePhases == {"absent", "Active", "Terminating"}

Init ==
    /\ \E b \in StoreChoices, r \in StoreChoices, m \in ArtifactChoices,
          s \in ServeChoices, e \in S3Endpoints, h \in PostgresHosts :
         argv = ParseArgs(b, r, m, s, DefaultDestination, e, h)
    /\ args = DeployerInit(argv)
    /\ pc = "ns_get"
    /\ error = "none"
    /\ ops = <<>>
    /\ diag = <<>>
    /\ ns_phase \in NamespacePhases
    /\ secrets \in [SecretNames -> {NoSecret, OldSecret}]
    /\ created = {}
    /\ mlflow_cr = NoCR
    /\ warned = FALSE
    /\ files = {}
    /\ cleanup_count = 0
    /\ exit_status = NoExit
    /\ exit_code = -1
    /\ wait_dep = "none"
    /\ timeout = DefaultTimeout
    /\ poll_interval = DefaultPollInterval
    /\ elapsed_time = 0
    /\ wait_queries = 0
    /\ last_query = "none"
    /\ prior_secrets = secrets
    /\ invocation = 0
    /\ secret_name = "none"
    /\ cleanup_failed = FALSE
    /\ unlinked = {}
    /\ sink = "unread"
    /\ outputs = <<>>
    /\ NoDiagnostics

Next ==
    \/ CreateNamespaceGet \/ CreateNamespaceCreate
    \/ DeployPostgresApply \/ PgWaitExist \/ PgWaitAvailable \/ PgDebug
    \/ CreatePostgresSecretDelete \/ CreatePostgresSecretCreate
    \/ CreateS3SecretDelete \/ CreateS3SecretCreate
    \/ SwJobDelete \/ DeploySeaweedfsApply \/ SwWaitExist \/ SwWaitAvailable
    \/ SwDebug \/ SwJobWait \/ SwJobDebug
    \/ OpSedNamespace \/ OpSedImage \/ TlsChmod \/ TlsGenerate
    \/ DeployOperatorApply \/ OpWaitAvailable \/ OpDebug
    \/ WriteCR \/ ApplyCR \/ CrWaitExist \/ CrDebugOperator
    \/ CrWaitAvailable \/ CrDebugMlflow
    \/ WaitPoll \/ WaitTimeout \/ WaitReturn \/ WaitRaise
    \/ SetupPortForward
    \/ HandleException \/ Finally \/ Exit

Spec == Init /\ [][Next]_vars

(***************************************************************************)
(* The construction of the custom resource in deploy_mlflow on its own,    *)
(* for every mode combination, destination and endpoint.                   *)
(***************************************************************************)
InitBuild ==
    /\ \E b \in StoreChoices, r \in StoreChoices, m \in ArtifactChoices,
          s \in ServeChoices, d \in Destinations, e \in S3Endpoints :
         argv = ParseArgs(b, r, m, s, d, e, "")
    /\ args = DeployerInit(argv)
    /\ pc = "cr_build"
    /\ error = "none"
    /\ ops = <<>>
    /\ diag = <<>>
    /\ ns_phase = "Active"
    /\ secrets = [n \in SecretNames |-> NoSecret]
    /\ created = {}
    /\ mlflow_cr = NoCR
    /\ warned = FALSE
    /\ files = {}
    /\ cleanup_count = 0
    /\ exit_status = NoExit
    /\ exit_code = -1
    /\ wait_dep = "none"
    /\ timeout = DefaultTimeout
    /\ poll_interval = DefaultPollInterval
    /\ elapsed_time = 0
    /\ wait_queries = 0
    /\ last_query = "none"
    /\ prior_secrets = secrets
    /\ invocation = 0
    /\ secret_name = "none"
    /\ cleanup_failed = FALSE
    /\ unlinked = {}
    /\ sink = "unread"
    /\ outputs = <<>>
    /\ NoDiagnostics

NextBuild == WriteCR

SpecBuild == InitBuild /\ [][NextBuild]_vars

(***************************************************************************)
(* wait_for_deployment_to_exist on its own, for every timeout and poll     *)
(* interval within the bounds.                                             *)
(***************************************************************************)
InitWait ==
    /\ argv = ParseArgs("sqlite", "sqlite", "file", "true",
                        DefaultDestination, "", "")
    /\ args = DeployerInit(argv)
    /\ pc = "wait_loop"
    /\ error = "none"
    /\ ops = <<Issued("wait_for_deployment_to_exist", "running", FALSE)>>
    /\ diag = <<>>
    /\ ns_phase = "Active"
    /\ secrets = [n \in SecretNames |-> NoSecret]
    /\ created = {}
    /\ mlflow_cr = NoCR
    /\ warned = FALSE
    /\ files = {}
    /\ cleanup_count = 0
    /\ exit_status = NoExit
    /\ exit_code = -1
    /\ wait_dep = "standalone"
    /\ timeout \in (0 - MaxNegTimeout)..MaxTimeout
    /\ poll_interval \in 1..MaxPollInterval
    /\ elapsed_time = 0
    /\ wait_queries = 0
    /\ last_query = "none"
    /\ prior_secrets = secrets
    /\ invocation = 0
    /\ secret_name = "none"
    /\ cleanup_failed = FALSE
    /\ unlinked = {}
    /\ sink = "unread"
    /\ outputs = <<>>
    /\ NoDiagnostics

NextWait == WaitPoll \/ WaitTimeout

SpecWait == InitWait /\ [][NextWait]_vars

\* The function runs on one thread that nothing suspends: a step that is
\* enabled is eventually taken.
SpecWaitLive == SpecWait /\ WF_vars(NextWait)

(***************************************************************************)
(* The diagnostics routines on their own, entered as the except clauses    *)
(* of the stages enter them, for every phase of the pods.                  *)
(***************************************************************************)
\* The state of a run in which nothing has happened yet.
FreshRun ==
    /\ error = "none"
    /\ ops = <<>>
    /\ diag = <<>>
    /\ ns_phase = "Active"
    /\ created = {}
    /\ mlflow_cr = NoCR
    /\ warned = FALSE
    /\ files = {}
    /\ cleanup_count = 0
    /\ exit_status = NoExit
    /\ exit_code = -1
    /\ wait_dep = "none"
    /\ timeout = DefaultTimeout
    /\ poll_interval = DefaultPollInterval
    /\ elapsed_time = 0
    /\ wait_queries = 0
    /\ last_query = "none"
    /\ cleanup_failed = FALSE
    /\ unlinked = {}
    /\ sink = "unread"
    /\ outputs = <<>>

DiagRoutines == {"debug_deployment", "_debug_operator_logs", "seaweedfs_init_job"}

EntryPc(r) == IF r = "seaweedfs_init_job" THEN "jd_describe_job" ELSE "dd_status"

InitDiag ==
    /\ argv = ParseArgs("postgres", "postgres", "s3", "true",
                        DefaultDestination, "", "")
    /\ args = DeployerInit(argv)
    /\ FreshRun
    /\ secrets = [n \in SecretNames |-> NoSecret]
    /\ prior_secrets = secrets
    /\ invocation = 0
    /\ secret_name = "none"
    /\ routine \in DiagRoutines
    /\ pc = EntryPc(routine)
    /\ pod_phase \in [Pods -> PodPhases]
    /\ pod_names = <<>>
    /\ pod_index = 0
    /\ status_value = "unset"
    /\ ready_value = "unset"
    /\ fetched = {}
    /\ attempted = {}
    /\ escaped = FALSE
    /\ failures = "all_timed_out"
    /\ phase_changed = FALSE
    /\ block_raised = "none"

NextDiag ==
    \/ PodPhaseChanges
    \/ DdStatus \/ DdGetPods \/ DdDescribePod \/ DdPhase \/ DdEvents
    \/ DdReady \/ DdLogs \/ DdNextPod
    \/ DoGetPods \/ DoDescribePod \/ DoReady \/ DoLogs \/ DoNextPod \/ DoCrStatus
    \/ JdStraightProbe \/ JdJobPods \/ JdJobPodsAlt \/ JdJobLogs \/ JdSwPods
    \/ JdPodStatus \/ JdPodLogs \/ JdPodEvents \/ JdPodIp \/ JdDirectTest
    \/ JdExcept

SpecDiag == InitDiag /\ [][NextDiag]_vars

(***************************************************************************)
(* The except handlers around the waits: a wait has raised, the handler    *)
(* runs its diagnostics routine probe by probe and ends with a bare raise, *)
(* which hands the exception in flight to the handler of deploy.           *)
(***************************************************************************)
\* A wait whose handler calls the routine.
TriggerOf(r) ==
    CASE r = "seaweedfs_init_job" -> "sw_job_wait"
      [] r = "_debug_operator_logs" -> "cr_wait_exist"
      [] r = "debug_deployment" -> "cr_wait_available"

\* What the wait raises: wait_for_deployment_to_exist raises Exception at
\* its timeout, a kubectl wait raises what run_command raises.
TriggerFailures(op) ==
    IF op = "cr_wait_exist"
    THEN {[out |-> "timeout", error |-> "Exception"]}
    ELSE {[out |-> o, error |-> ErrorOf(o)] : o \in {"nonzero", "timeout"}}

\* The exception of a probe that left the routine names the probe.
ProbeError(kind) == "TimeoutExpired:" \o kind

\* raise: the original exception when the routine returned, the one that
\* left the routine otherwise.
HandlerReraise ==
    /\ pc \in {"diag_done", "diag_raised"}
    /\ routine # "none"
    /\ diag' = Append(diag, routine)
    /\ error' = IF escaped THEN ProbeError(block_raised) ELSE error
    /\ routine' = "none"
    /\ pc' = "except"
    /\ UNCHANGED <<argv, args, ops, cluster, mlflow_cr, warned, files,
                   cleanup_count, exit_status, exit_code, waitvars,
                   secretframe, cleanup_failed, unlinked, sinkvars,
                   pod_phase, pod_names, pod_index, status_value, ready_value,
                   fetched, attempted, escaped, failures, phase_changed,
                   block_raised>>

InitHandler ==
    /\ argv = ParseArgs("postgres", "postgres", "s3", "true",
                        DefaultDestination, "", "")
    /\ args = DeployerInit(argv)
    /\ routine \in DiagRoutines
    /\ \E f \in TriggerFailures(TriggerOf(routine)) :
         /\ error = f.error
         /\ ops = <<Issued(TriggerOf(routine), f.out, TRUE)>>
    /\ pc = EntryPc(routine)
    /\ diag = <<>>
    /\ ns_phase = "Active"
    /\ secrets = [n \in SecretNames |-> NoSecret]
    /\ created = {}
    /\ mlflow_cr = NoCR
    /\ warned = FALSE
    /\ files = {}
    /\ cleanup_count = 0
    /\ exit_status = NoExit
    /\ exit_code = -1
    /\ wait_dep = "none"
    /\ timeout = DefaultTimeout
    /\ poll_interval = DefaultPollInterval
    /\ elapsed_time = 0
    /\ wait_queries = 0
    /\ last_query = "none"
    /\ prior_secrets = secrets
    /\ invocation = 0
    /\ secret_name = "none"
    /\ cleanup_failed = FALSE
    /\ unlinked = {}
    /\ sink = "unread"
    /\ outputs = <<>>
    /\ pod_phase \in [Pods -> PodPhases]
    /\ pod_names = <<>>
    /\ pod_index = 0
    /\ status_value = "unset"
    /\ ready_value = "unset"
    /\ fetched = {}
    /\ attempted = {}
    /\ escaped = FALSE
    /\ failures = "all_timed_out"
    /\ phase_changed = FALSE
    /\ block_raised = "none"

NextHandler ==
    \/ NextDiag
    \/ HandlerReraise
    \/ HandleException \/ Finally \/ Exit

SpecHandler == InitHandler /\ [][NextHandler]_vars

(***************************************************************************)
(* create_postgres_secret and create_s3_secret on their own: the function  *)
(* is invoked, and then invoked again by a later run whose credentials may *)
(* differ, whether or not the first invocation returned.                   *)
(***************************************************************************)
Passwords == {"mysecretpassword", "p@ss:w/rd 1;"}

WithCredentials(a, pw) == [a EXCEPT !.postgres_password = pw, !.s3_secret_key = pw]

CreateSecretDelete ==
    /\ pc = "sec_delete"
    /\ SecretDelete("sec_delete", secret_name, "sec_create")

CreateSecretCreate ==
    /\ pc = "sec_create"
    /\ SecretCreate("sec_create", secret_name, "sec_returned")

InvokeAgain ==
    /\ pc \in {"sec_returned", "except"}
    /\ invocation = 1
    /\ invocation' = 2
    /\ \E pw \in Passwords : argv' = WithCredentials(argv, pw)
    /\ args' = DeployerInit(argv')
    /\ error' = "none"
    /\ pc' = "sec_delete"
    /\ UNCHANGED <<ops, diag, cluster, mlflow_cr, warned, files, cleanup_count,
                   exit_status, exit_code, waitvars, prior_secrets, secret_name,
                   cleanup_failed, unlinked, sinkvars, diagvars>>

InitSecret ==
    /\ \E pw \in Passwords :
         argv = WithCredentials(ParseArgs("postgres", "postgres", "s3", "true",
                                          DefaultDestination, "", ""), pw)
    /\ args = DeployerInit(argv)
    /\ FreshRun
    /\ secret_name \in SecretNames
    /\ \E before \in {NoSecret, OldSecret} :
         secrets = [n \in SecretNames |-> IF n = secret_name THEN before ELSE NoSecret]
    /\ prior_secrets = secrets
    /\ invocation = 1
    /\ pc = "sec_delete"
    /\ NoDiagnostics

NextSecret == CreateSecretDelete \/ CreateSecretCreate \/ InvokeAgain

SpecSecret == InitSecret /\ [][NextSecret]_vars

(***************************************************************************)
(* Vocabulary of the properties.                                           *)
(***************************************************************************)
Built == mlflow_cr.kind = "MLflow"

HasKey(k) == k \in DOMAIN mlflow_cr.spec

AllExternal ==
    /\ args.backend_store = "postgres"
    /\ args.registry_store = "postgres"
    /\ args.artifact_storage = "s3"

OpsIssued == {ops[i].op : i \in 1..Len(ops)}

\* op was issued and completed without raising
Succeeded(op) == \E i \in 1..Len(ops) : ops[i].op = op /\ ops[i].out = "ok"

SucceededBefore(op, j) == \E i \in 1..(j - 1) : ops[i].op = op /\ ops[i].out = "ok"

AnyRaised == \E i \in 1..Len(ops) : ops[i].raised

LastRaised == Len(ops) > 0 /\ ops[Len(ops)].raised

LastOp == ops[Len(ops)].op

StageOf(op) ==
    CASE op \in {"ns_get", "ns_create"} -> 1
      [] op \in {"pg_apply", "pg_wait_exist", "pg_wait_available",
                 "pg_secret_delete", "pg_secret_create"} -> 2
      [] op \in {"s3_secret_delete", "s3_secret_create", "sw_job_delete", "sw_apply",
                 "sw_wait_exist", "sw_wait_available", "sw_job_wait"} -> 3
      [] op \in {"op_sed_namespace", "op_sed_image", "tls_chmod", "tls_generate",
                 "op_apply", "op_wait_available"} -> 4
      [] op \in {"cr_apply", "cr_wait_exist", "cr_wait_available"} -> 5
      [] op \in {"svc_get", "write_outputs"} -> 6

Stages == 1..6

Applicable(stage) ==
    CASE stage = 2 -> args.backend_store = "postgres" \/ args.registry_store = "postgres"
      [] stage = 3 -> args.artifact_storage = "s3"
      [] OTHER -> TRUE

\* The operations a stage consists of, all completed before position j of ops.
StageCompletedBefore(stage, j) ==
    CASE stage = 1 ->
           \/ SucceededBefore("ns_create", j)
           \/ /\ SucceededBefore("ns_get", j)
              /\ \A i \in 1..(j - 1) : ops[i].op # "ns_create"
      [] stage = 2 ->
           \A op \in {"pg_apply", "pg_wait_exist", "pg_wait_available",
                      "pg_secret_create"} : SucceededBefore(op, j)
      [] stage = 3 ->
           \A op \in {"s3_secret_create", "sw_apply", "sw_wait_exist",
                      "sw_wait_available", "sw_job_wait"} : SucceededBefore(op, j)
      [] stage = 4 ->
           \A op \in {"op_sed_namespace", "op_sed_image", "tls_chmod", "tls_generate",
                      "op_apply", "op_wait_available"} : SucceededBefore(op, j)
      [] stage = 5 ->
           \A op \in {"cr_apply", "cr_wait_exist", "cr_wait_available"} :
              SucceededBefore(op, j)
      [] stage = 6 -> \E i \in 1..(j - 1) : ops[i].op = "svc_get"

ApplyOps == {"pg_apply", "sw_apply", "op_apply", "cr_apply"}

WaitOps == {"pg_wait_exist", "pg_wait_available", "sw_wait_exist", "sw_wait_available",
            "sw_job_wait", "op_wait_available", "cr_wait_exist", "cr_wait_available"}

DiagnosticsOf(op) ==
    CASE op \in {"pg_wait_exist", "pg_wait_available"} ->
           "debug_deployment:postgres-deployment"
      [] op \in {"sw_wait_exist", "sw_wait_available"} -> "debug_deployment:seaweedfs"
      [] op = "sw_job_wait" -> "seaweedfs_init_job_diagnostics"
      [] op = "op_wait_available" ->
           "debug_deployment:mlflow-operator-controller-manager"
      [] op = "cr_wait_exist" -> "_debug_operator_logs"
      [] op = "cr_wait_available" -> "debug_deployment:mlflow"

AtTopLevelHandler == pc \in {"except", "finally", "exit", "exited"} /\ error # "none"

(***************************************************************************)
(* C1: for every combination of the modes and of serve_artifacts, the      *)
(* built spec holds exactly one of backendStoreUriFrom / backendStoreUri   *)
(* and exactly one of registryStoreUriFrom / registryStoreUri, and the     *)
(* secret-reference form is the one present exactly when the axis is       *)
(* postgres.                                                               *)
(***************************************************************************)
C1_ExactlyOneStoreForm ==
    Built =>
      /\ HasKey("backendStoreUriFrom") <=> ~HasKey("backendStoreUri")
      /\ HasKey("backendStoreUriFrom") <=> args.backend_store = "postgres"
      /\ HasKey("registryStoreUriFrom") <=> ~HasKey("registryStoreUri")
      /\ HasKey("registryStoreUriFrom") <=> args.registry_store = "postgres"

C1_Witness ==
    /\ Built
    /\ args.backend_store = "postgres"
    /\ args.registry_store = "sqlite"
    /\ HasKey("backendStoreUriFrom")
    /\ HasKey("registryStoreUri")

(***************************************************************************)
(* C2 as stated: whenever the artifact-storage mode is file, the built     *)
(* serveArtifacts is true, whatever the requested value and whatever the   *)
(* artifacts destination.                                                  *)
(***************************************************************************)
C2_Original_FileAlwaysServes ==
    Built /\ args.artifact_storage = "file" => mlflow_cr.spec.serveArtifacts = TRUE

(***************************************************************************)
(* C2 amended: in file mode the built serveArtifacts is true whenever the  *)
(* artifacts destination starts with file://, whatever the requested       *)
(* value; with any other destination it equals the requested value.        *)
(***************************************************************************)
C2_FileDestinationServes ==
    Built /\ args.artifact_storage = "file" =>
      mlflow_cr.spec.serveArtifacts =
        (StartsWith(args.artifacts_destination, "file://")
           \/ args.serve_artifacts = "true")

C2_Witness ==
    /\ Built
    /\ args.artifact_storage = "file"
    /\ args.serve_artifacts = "false"
    /\ StartsWith(args.artifacts_destination, "file://")
    /\ mlflow_cr.spec.serveArtifacts = TRUE

(***************************************************************************)
(* C3: the built spec has the storage block iff not all three axes are     *)
(* external (postgres, postgres, s3); the all-external combination has no  *)
(* storage block, both secret-reference fields, the envFrom reference to   *)
(* aws-credentials and the endpoint literal in env.                        *)
(***************************************************************************)
C3_StorageBlockIffNotAllExternal ==
    Built =>
      /\ HasKey("storage") <=> ~AllExternal
      /\ AllExternal =>
           /\ HasKey("backendStoreUriFrom")
           /\ HasKey("registryStoreUriFrom")
           /\ HasKey("envFrom") /\ HasKey("env")
           /\ mlflow_cr.spec.envFrom = <<[secretRef |-> [name |-> "aws-credentials"]]>>
           /\ mlflow_cr.spec.env =
                <<[name |-> "MLFLOW_S3_ENDPOINT_URL", value |-> args.s3_endpoint]>>

C3_Witness == Built /\ AllExternal /\ ~HasKey("storage") /\ HasKey("envFrom")

(***************************************************************************)
(* C4: the operations of a run are issued in the order of the stages       *)
(* (namespace, database, object store, operator, custom resource, access   *)
(* instructions); an operation of a stage is issued only after every       *)
(* earlier applicable stage has completed successfully; when the database  *)
(* stage applies, its apply, both waits and the secret creation have       *)
(* succeeded before the custom resource is applied.                        *)
(***************************************************************************)
C4_StagesInOrder ==
    /\ \A i \in 1..Len(ops) : \A j \in 1..Len(ops) :
         i < j => StageOf(ops[i].op) <= StageOf(ops[j].op)
    /\ \A j \in 1..Len(ops) : \A stage \in Stages :
         stage < StageOf(ops[j].op) /\ Applicable(stage) =>
           StageCompletedBefore(stage, j)
    /\ \A j \in 1..Len(ops) :
         /\ ops[j].op = "cr_apply"
         /\ args.backend_store = "postgres" \/ args.registry_store = "postgres"
         => /\ SucceededBefore("pg_apply", j)
            /\ SucceededBefore("pg_wait_exist", j)
            /\ SucceededBefore("pg_wait_available", j)
            /\ SucceededBefore("pg_secret_create", j)

C4_Witness ==
    /\ pc = "exited"
    /\ exit_code = 0
    /\ args.registry_store = "postgres"
    /\ args.artifact_storage = "s3"
    /\ Succeeded("pg_secret_create")
    /\ Succeeded("cr_apply")

(***************************************************************************)
(* C5: when the custom resource is applied, every secret its spec          *)
(* references was created earlier in the same run and is in the cluster.   *)
(***************************************************************************)
C5_ReferencedSecretsCreated ==
    "cr_apply" \in OpsIssued =>
      /\ HasKey("backendStoreUriFrom") \/ HasKey("registryStoreUriFrom") =>
           /\ "mlflow-db-credentials" \in created
           /\ secrets["mlflow-db-credentials"]
                = Secret(SecretData("mlflow-db-credentials", args))
      /\ HasKey("envFrom") =>
           /\ "aws-credentials" \in created
           /\ secrets["aws-credentials"] = Secret(SecretData("aws-credentials", args))

C5_Witness ==
    /\ "cr_apply" \in OpsIssued
    /\ args.backend_store = "sqlite"
    /\ HasKey("registryStoreUriFrom")
    /\ HasKey("envFrom")
    /\ created = SecretNames

(***************************************************************************)
(* C6: cleanup_tls_certificates runs exactly once on every exit path of    *)
(* deploy: never twice, and once by the time the process ends, also when   *)
(* the run failed before the certificates were generated.                  *)
(***************************************************************************)
C6_CleanupExactlyOnce ==
    /\ cleanup_count <= 1
    /\ pc \in {"exit", "exited"} => cleanup_count = 1

C6_Witness ==
    /\ pc = "exited"
    /\ exit_code = 1
    /\ "tls_generate" \notin OpsIssued
    /\ cleanup_count = 1

C8_Original_DiagnosticsOnApplyOrWaitFailure ==
    AtTopLevelHandler /\ LastRaised /\ LastOp \in ApplyOps \cup WaitOps =>
      diag # <<>>

(***************************************************************************)
(* C8 amended: a failure of any wait of a stage (existence, availability,  *)
(* job completion) runs that wait's diagnostics before the error reaches   *)
(* the top-level handler; a failure of a stage's apply reaches the         *)
(* top-level handler with no diagnostics collected.                        *)
(***************************************************************************)
C8_DiagnosticsOnWaitFailure ==
    /\ AtTopLevelHandler /\ LastRaised /\ LastOp \in WaitOps =>
         diag = <<DiagnosticsOf(LastOp)>>
    /\ AtTopLevelHandler /\ LastRaised /\ LastOp \in ApplyOps => diag = <<>>

C8_Witness ==
    /\ pc = "except"
    /\ LastRaised
    /\ LastOp = "pg_wait_available"
    /\ diag = <<"debug_deployment:postgres-deployment">>

(***************************************************************************)
(* C9: fail-fast: once an operation has raised, no further deployment      *)
(* operation is issued (the raising one is the last of the run), and no    *)
(* apply or wait is issued twice.                                          *)
(***************************************************************************)
C9_FailFast ==
    /\ \A i \in 1..Len(ops) : ops[i].raised => i = Len(ops)
    /\ \A i \in 1..Len(ops) : \A j \in 1..Len(ops) :
         i # j /\ ops[i].op \in ApplyOps \cup WaitOps => ops[i].op # ops[j].op

C9_Witness ==
    /\ pc = "exited"
    /\ args.artifact_storage = "s3"
    /\ LastRaised
    /\ LastOp = "pg_apply"
    /\ Len(ops) = 2

(***************************************************************************)
(* C10 as stated: the wait returns at the first poll whose query is        *)
(* positive, and raises its timeout error only where                       *)
(* timeout <= elapsed_time < timeout + poll_interval, for every timeout    *)
(* and every positive poll interval.                                       *)
(***************************************************************************)
C10_Original_TimeoutWindow ==
    /\ pc = "wait_loop" => last_query # "exists"
    /\ pc = "wait_return" => last_query = "exists"
    /\ pc = "wait_raise" =>
         elapsed_time >= timeout /\ elapsed_time < timeout + poll_interval

(***************************************************************************)
(* C10 amended: the same, for every timeout greater than -poll_interval    *)
(* (so for every timeout >= 0); with a smaller timeout the error is        *)
(* raised at elapsed_time = 0, which is not below timeout + poll_interval. *)
(***************************************************************************)
C10_TimeoutWindow ==
    /\ pc = "wait_loop" => last_query # "exists"
    /\ pc = "wait_return" => last_query = "exists"
    /\ pc = "wait_raise" /\ timeout > 0 - poll_interval =>
         elapsed_time >= timeout /\ elapsed_time < timeout + poll_interval
    /\ pc = "wait_raise" /\ timeout <= 0 - poll_interval => elapsed_time = 0

C10_Witness ==
    /\ pc = "wait_raise"
    /\ timeout = 7
    /\ poll_interval = 3
    /\ elapsed_time = 9
    /\ wait_queries = 3

(***************************************************************************)
(* C11: debug_deployment and _debug_operator_logs never raise: whatever    *)
(* the workload and however the probes end, by non-zero exit or by         *)
(* timeout, no exception leaves the routine.                               *)
(***************************************************************************)
C11_DiagnosticsNeverRaise ==
    routine \in {"debug_deployment", "_debug_operator_logs"} =>
        ~escaped /\ pc # "diag_raised"

C11_Witness ==
    /\ routine = "_debug_operator_logs"
    /\ pc = "diag_done"
    /\ failures = "all_timed_out"
    /\ {<<"describe_deployment", NoPod>>, <<"get_pods_for_deployment", NoPod>>,
        <<"get_pods_with_label_selector", NoPod>>, <<"describe_mlflow", NoPod>>}
          \subseteq attempted

C14_Original_NoGeneratedFileLeft ==
    pc = "exited" => files \cap ({cr_file} \cup TlsFiles) = {}

(***************************************************************************)
(* C14: when the run ends, with success or with failure, tls.crt and       *)
(* tls.key are gone unless an unlink raised during the cleanup, and the    *)
(* serialized manifest is on disk exactly when deploy_mlflow wrote it: no  *)
(* step deletes it.                                                        *)
(***************************************************************************)
C14_CertificatesRemovedManifestKept ==
    pc = "exited" =>
        /\ cleanup_count = 1
        /\ ~cleanup_failed => files \cap TlsFiles = {}
        /\ cleanup_failed => files \cap TlsFiles # {}
        /\ cr_file \in files <=> Built

C14_Witness ==
    /\ pc = "exited"
    /\ exit_code = 0
    /\ Succeeded("tls_generate")
    /\ ~cleanup_failed
    /\ files = {cr_file}

(***************************************************************************)
(* C15: every run that ends with exit status 0 while GITHUB_OUTPUT names   *)
(* a results sink has written the access endpoint and the namespace to     *)
(* the sink.                                                               *)
(***************************************************************************)
C15_SuccessWritesOutputs ==
    pc = "exited" /\ exit_code = 0 /\ sink \in {"writable", "unwritable"} =>
        outputs = SuccessOutputs(args)

(***************************************************************************)
(* C16: the namespace stage issues its create only when the namespace is   *)
(* absent from the cluster; when the namespace exists, in whatever phase,  *)
(* no create is issued and no create fails.                                *)
(***************************************************************************)
C16_CreateOnlyIfAbsent ==
    /\ pc = "ns_create" => ns_phase = "absent"
    /\ \A i \in 1..Len(ops) :
         ops[i].op = "ns_create" /\ ops[i].raised => ns_phase # "Terminating"

(***************************************************************************)
(* C17 as stated: in debug_deployment and in the diagnostics of the        *)
(* object-store init job alike, a failing probe is not propagated and      *)
(* does not keep any of the remaining probes from being attempted: a       *)
(* routine that is done has attempted every probe it issues                *)
(* unconditionally, and every pod it iterated over has had its description *)
(* and both of its phase queries attempted.                                *)
(***************************************************************************)
C17_Original_NoProbeSkipped ==
    /\ ~escaped
    /\ pc = "dd_next" =>
         {<<"describe_pod", CurrentPod>>, <<"pod_phase", CurrentPod>>,
          <<"is_pod_ready_for_logs", CurrentPod>>} \subseteq attempted
    /\ pc = "diag_done" /\ routine = "debug_deployment" =>
         {"describe_deployment", "get_pods_for_deployment"} \subseteq AttemptedKinds
    /\ pc = "diag_done" /\ routine = "seaweedfs_init_job" =>
         JobProbes \subseteq AttemptedKinds

(***************************************************************************)
(* C17: no diagnostics path propagates the failure of a probe.  In         *)
(* debug_deployment every probe is guarded on its own: whatever fails,     *)
(* the deployment description, the pod query and, for every pod found,     *)
(* the description and both phase queries are attempted.  The diagnostics  *)
(* of the init job share one try block: they attempt every probe unless a  *)
(* probe issued directly by the block times out, and that probe ends the   *)
(* diagnostics.                                                            *)
(***************************************************************************)
C17_GuardedPerRoutine ==
    /\ ~escaped /\ pc # "diag_raised"
    /\ pc = "dd_next" =>
         {<<"describe_pod", CurrentPod>>, <<"pod_phase", CurrentPod>>,
          <<"is_pod_ready_for_logs", CurrentPod>>} \subseteq attempted
    /\ pc = "diag_done" /\ routine = "debug_deployment" =>
         /\ {"describe_deployment", "get_pods_for_deployment"} \subseteq AttemptedKinds
         /\ block_raised = "none"
    /\ pc = "diag_done" /\ routine = "seaweedfs_init_job" =>
         /\ block_raised = "none" => JobProbes \subseteq AttemptedKinds
         /\ block_raised # "none" =>
              block_raised \in AttemptedKinds \ {"get_pods_with_label_selector",
                                                 "get_pods_for_deployment",
                                                 "get_pod_logs"}

C17_Witness ==
    /\ pc = "dd_next"
    /\ CurrentPod \in Pods
    /\ status_value = "unset"
    /\ <<"pod_phase", CurrentPod>> \in attempted
    /\ "logs" \in fetched

(***************************************************************************)
(* C18: the operations of the database stage are issued only when the      *)
(* backend store or the registry store is postgres, and those of the       *)
(* object-store stage only when the artifact storage is s3; a run that     *)
(* has gone past the place of an applicable stage has issued every         *)
(* operation of that stage.                                                *)
(***************************************************************************)
C18_GatingExact ==
    LET stages == {StageOf(ops[i].op) : i \in 1..Len(ops)}
        database == args.backend_store = "postgres" \/ args.registry_store = "postgres"
        objects == args.artifact_storage = "s3"
    IN  /\ 2 \in stages => database
        /\ 3 \in stages => objects
        /\ database /\ stages \cap {3, 4, 5, 6} # {} =>
             {"pg_apply", "pg_wait_exist", "pg_wait_available", "pg_secret_delete",
              "pg_secret_create"} \subseteq OpsIssued
        /\ objects /\ stages \cap {4, 5, 6} # {} =>
             {"s3_secret_delete", "s3_secret_create", "sw_job_delete", "sw_apply",
              "sw_wait_exist", "sw_wait_available", "sw_job_wait"} \subseteq OpsIssued
        /\ database /\ pc = "exited" /\ 2 \notin stages =>
             LastRaised /\ StageOf(LastOp) = 1
        /\ objects /\ pc = "exited" /\ 3 \notin stages =>
             LastRaised /\ StageOf(LastOp) \in {1, 2}

C18_Witness ==
    /\ pc = "exited"
    /\ exit_code = 0
    /\ args.backend_store = "sqlite"
    /\ args.registry_store = "postgres"
    /\ args.artifact_storage = "file"
    /\ "pg_secret_create" \in OpsIssued
    /\ \A i \in 1..Len(ops) : StageOf(ops[i].op) # 3

(***************************************************************************)
(* C19: the object-store stage recreates the secret, deploys the           *)
(* workload, waits for the deployment to exist, waits for it to be         *)
(* available and waits for the init job to complete, in this order, each   *)
(* step issued only after the one before it succeeded; the job wait runs   *)
(* under a timeout of 400, longer than the 300 of the availability wait.   *)
(***************************************************************************)
C19_ObjectStoreOrder ==
    \A j \in 1..Len(ops) :
        /\ ops[j].op = "s3_secret_create" =>
             \E i \in 1..(j - 1) : ops[i].op = "s3_secret_delete" /\ ~ops[i].raised
        /\ ops[j].op = "sw_apply" => SucceededBefore("s3_secret_create", j)
        /\ ops[j].op = "sw_wait_exist" => SucceededBefore("sw_apply", j)
        /\ ops[j].op = "sw_wait_available" =>
             /\ SucceededBefore("sw_wait_exist", j)
             /\ ops[j].timeout = 300
        /\ ops[j].op = "sw_job_wait" =>
             /\ SucceededBefore("sw_wait_available", j)
             /\ ops[j].timeout = 400
             /\ \A i \in 1..(j - 1) :
                  ops[i].op = "sw_wait_available" => ops[i].timeout < ops[j].timeout
        /\ StageOf(ops[j].op) = 3 =>
             \A i \in 1..(j - 1) : StageOf(ops[i].op) = 3 => ops[i].op # ops[j].op

C19_Witness ==
    /\ Succeeded("sw_job_wait")
    /\ Succeeded("sw_wait_available")
    /\ \E i \in 1..Len(ops) : ops[i].op = "s3_secret_delete" /\ ops[i].out = "ok"

(***************************************************************************)
(* C20: the delete and the create of mlflow-db-credentials are issued      *)
(* only after the database deployment has been applied, seen to exist and  *)
(* seen available; when the apply or one of the two waits fails, neither   *)
(* is issued and the secret is as it was before the run.                   *)
(***************************************************************************)
C20_SecretAfterAvailable ==
    /\ \A j \in 1..Len(ops) :
         ops[j].op \in {"pg_secret_delete", "pg_secret_create"} =>
            /\ SucceededBefore("pg_apply", j)
            /\ SucceededBefore("pg_wait_exist", j)
            /\ SucceededBefore("pg_wait_available", j)
    /\ (\E i \in 1..Len(ops) :
          /\ ops[i].op \in {"pg_apply", "pg_wait_exist", "pg_wait_available"}
          /\ ops[i].raised)
       => /\ OpsIssued \cap {"pg_secret_delete", "pg_secret_create"} = {}
          /\ secrets["mlflow-db-credentials"] = prior_secrets["mlflow-db-credentials"]

C20_Witness ==
    /\ pc = "exited"
    /\ LastRaised
    /\ LastOp = "pg_wait_available"
    /\ prior_secrets["mlflow-db-credentials"] = OldSecret
    /\ secrets["mlflow-db-credentials"] = OldSecret

(***************************************************************************)
(* C21: in s3 artifact mode the built spec has serveArtifacts equal to the *)
(* requested serve flag, artifactsDestination s3://{bucket}/artifacts, the *)
(* key defaultArtifactRoot = s3://{bucket}/artifacts/runs exactly when not *)
(* serving, the envFrom reference to aws-credentials and one env entry     *)
(* holding the endpoint URL literally.                                     *)
(***************************************************************************)
C21_S3ArtifactContract ==
    Built /\ args.artifact_storage = "s3" =>
      /\ mlflow_cr.spec.serveArtifacts = (args.serve_artifacts = "true")
      /\ mlflow_cr.spec.artifactsDestination = "s3://mlpipeline/artifacts"
      /\ HasKey("defaultArtifactRoot") <=> mlflow_cr.spec.serveArtifacts = FALSE
      /\ HasKey("defaultArtifactRoot") =>
           mlflow_cr.spec.defaultArtifactRoot = "s3://mlpipeline/artifacts/runs"
      /\ mlflow_cr.spec.envFrom = <<[secretRef |-> [name |-> "aws-credentials"]]>>
      /\ Len(mlflow_cr.spec.env) = 1
      /\ mlflow_cr.spec.env[1] =
           [name |-> "MLFLOW_S3_ENDPOINT_URL", value |-> args.s3_endpoint]

C21_Witness ==
    /\ Built
    /\ args.artifact_storage = "s3"
    /\ args.s3_bucket = "mlpipeline"
    /\ args.serve_artifacts = "false"
    /\ mlflow_cr.spec.defaultArtifactRoot = "s3://mlpipeline/artifacts/runs"
    /\ mlflow_cr.spec.env[1].value = "http://s3.example.com:9000"

(***************************************************************************)
(* C22: in non-s3 mode with a destination that starts with file://, the    *)
(* built spec has serveArtifacts = true and no defaultArtifactRoot, and    *)
(* the override warning is printed iff the requested serve flag is false.  *)
(***************************************************************************)
C22_FileDestinationContract ==
    /\ Built /\ args.artifact_storage # "s3"
         /\ StartsWith(args.artifacts_destination, "file://") =>
           /\ mlflow_cr.spec.serveArtifacts = TRUE
           /\ ~HasKey("defaultArtifactRoot")
           /\ warned <=> args.serve_artifacts = "false"

C22_Witness ==
    /\ Built
    /\ args.backend_store = "sqlite" /\ args.registry_store = "sqlite"
    /\ args.artifact_storage = "file"
    /\ args.artifacts_destination = DefaultDestination
    /\ args.serve_artifacts = "false"
    /\ mlflow_cr.spec.serveArtifacts = TRUE
    /\ ~HasKey("defaultArtifactRoot")
    /\ warned

(***************************************************************************)
(* C23: in non-s3 mode with a destination that does not start with         *)
(* file://, the built spec has serveArtifacts equal to the requested serve *)
(* flag and the key defaultArtifactRoot = {destination}/runs exactly when  *)
(* not serving.                                                            *)
(***************************************************************************)
C23_OtherDestinationContract ==
    \A d \in Destinations :
      Built /\ args.artifact_storage # "s3" /\ args.artifacts_destination = d
        /\ ~StartsWith(d, "file://") =>
          /\ mlflow_cr.spec.serveArtifacts = (args.serve_artifacts = "true")
          /\ mlflow_cr.spec.artifactsDestination = d
          /\ HasKey("defaultArtifactRoot") <=> mlflow_cr.spec.serveArtifacts = FALSE
          /\ HasKey("defaultArtifactRoot") =>
               mlflow_cr.spec.defaultArtifactRoot = d \o "/runs"

C23_Witness ==
    /\ Built
    /\ args.artifact_storage = "file"
    /\ args.artifacts_destination = "hdfs://namenode/mlflow"
    /\ args.serve_artifacts = "false"
    /\ mlflow_cr.spec.serveArtifacts = FALSE
    /\ mlflow_cr.spec.defaultArtifactRoot = "hdfs://namenode/mlflow/runs"

(***************************************************************************)
(* C24: when a wait fails and its handler collects diagnostics, the error  *)
(* that reaches the handler of deploy, is printed in the failure summary   *)
(* and ends the run with status 1 is the error the wait raised, whatever   *)
(* the outcomes of the probes, those of the init-job block included.       *)
(***************************************************************************)
C24_OriginalErrorReported ==
    AtTopLevelHandler /\ diag # <<>> =>
      /\ Len(ops) > 0
      /\ ops[Len(ops)].raised
      /\ ops[Len(ops)].op \in WaitOps
      /\ error \in {f.error : f \in
                      {g \in TriggerFailures(ops[Len(ops)].op) :
                         g.out = ops[Len(ops)].out}}
      /\ pc = "exited" => exit_code = 1

C24_Witness ==
    /\ pc = "exited"
    /\ exit_code = 1
    /\ diag = <<"seaweedfs_init_job">>
    /\ block_raised # "none"
    /\ failures = "all_timed_out"
    /\ ops[1].out = "nonzero"
    /\ error = "CalledProcessError"

(***************************************************************************)
(* C25: at every point of a run, s3_endpoint and postgres_host are the     *)
(* values given on the command line when those were not empty, and the     *)
(* service addresses derived from the namespace when they were empty; no   *)
(* stage changes either value.                                             *)
(***************************************************************************)
C25_EndpointsResolvedOnce ==
    /\ argv.s3_endpoint # "" => args.s3_endpoint = argv.s3_endpoint
    /\ argv.s3_endpoint = "" =>
         args.s3_endpoint = "http://minio-service.mlflow.svc.cluster.local:9000"
    /\ argv.postgres_host # "" => args.postgres_host = argv.postgres_host
    /\ argv.postgres_host = "" =>
         args.postgres_host = "postgres-service.mlflow.svc.cluster.local"
    /\ argv.namespace = "mlflow" /\ args.namespace = "mlflow"

C25_Witness ==
    /\ pc = "exited"
    /\ exit_code = 0
    /\ AllExternal
    /\ argv.s3_endpoint = "http://s3.example.com:9000"
    /\ args.s3_endpoint = "http://s3.example.com:9000"
    /\ argv.postgres_host = ""
    /\ args.postgres_host = "postgres-service.mlflow.svc.cluster.local"
    /\ mlflow_cr.spec.env[1].value = "http://s3.example.com:9000"

\* ceil(t / p) for a positive p
Ceil(t, p) == 0 - ((0 - t) \div p)

WaitEnded == pc \in {"wait_return", "wait_raise"}

(***************************************************************************)
(* C26: in wait_for_deployment_to_exist a query that returns non-zero or   *)
(* raises (an error, a timeout) only makes the wait sleep and go round     *)
(* again; a step out of the loop is either a return after a positive query *)
(* or the function's own timeout error, raised with the loop condition     *)
(* false and without a query.                                              *)
(***************************************************************************)
C26_QueryErrorsAreNotYet ==
    [][pc = "wait_loop" =>
         \/ /\ pc' = "wait_return"
            /\ last_query' = "exists"
            /\ error' = "none"
         \/ /\ pc' = "wait_raise"
            /\ elapsed_time >= timeout
            /\ wait_queries' = wait_queries
            /\ error' = "Exception"
         \/ /\ pc' = "wait_loop"
            /\ last_query' \in {"absent", "error"}
            /\ wait_queries' = wait_queries + 1
            /\ elapsed_time' = elapsed_time + poll_interval
            /\ error' = "none"]_vars

C26_Witness ==
    /\ pc = "wait_return"
    /\ wait_queries = 3
    /\ elapsed_time = 2 * poll_interval
    /\ last_query = "exists"
    /\ error = "none"

(***************************************************************************)
(* C29 as stated: the wait always ends, for every timeout and positive     *)
(* poll interval and whatever the queries answer; when it ends by timeout  *)
(* it has issued exactly ceil(timeout / poll_interval) queries, none for a *)
(* timeout <= 0, and none after the last sleep.                            *)
(***************************************************************************)
C29_Original_ExactlyCeilQueries ==
    /\ <>WaitEnded
    /\ [](pc = "wait_raise" =>
            /\ wait_queries = Ceil(timeout, poll_interval)
            /\ timeout <= 0 => wait_queries = 0
            /\ elapsed_time = wait_queries * poll_interval)

(***************************************************************************)
(* C29 amended: the same, with the number of queries ceil(timeout /        *)
(* poll_interval) for a timeout > 0 and zero for a timeout <= 0.           *)
(***************************************************************************)
C29_TerminatesAfterCeilQueries ==
    /\ <>WaitEnded
    /\ [](pc = "wait_raise" =>
            /\ timeout > 0 => wait_queries = Ceil(timeout, poll_interval)
            /\ timeout <= 0 => wait_queries = 0
            /\ elapsed_time = wait_queries * poll_interval)

C29_Witness ==
    /\ pc = "wait_raise"
    /\ timeout = 0 - 3
    /\ poll_interval = 2
    /\ wait_queries = 0
    /\ Ceil(timeout, poll_interval) = 0 - 1

(***************************************************************************)
(* C27: whenever the SeaweedFS manifests are applied, the sed command of   *)
(* deploy_mlflow_operator that sets NAMESPACE in the base params.env has   *)
(* already succeeded in the same run.                                      *)
(***************************************************************************)
C27_NamespaceUpdatedBeforeSeaweedfs ==
    \A j \in 1..Len(ops) :
      ops[j].op = "sw_apply" => SucceededBefore("op_sed_namespace", j)

(***************************************************************************)
(* C30: for each pod of debug_deployment the events decision and the logs  *)
(* decision come from one observation of the pod's phase, also when the    *)
(* phase changes meanwhile: at the end of the iteration of a pod whose     *)
(* phase queries all answered, there is a phase read for the pod for which *)
(* the sections fetched are exactly the ones that phase calls for (events  *)
(* for Failed and Pending, logs for Running, Succeeded and Failed).        *)
(***************************************************************************)
C30_SingleObservation ==
    /\ pc = "dd_next"
    /\ CurrentPod \in Pods
    /\ status_value \in PodPhases
    /\ ready_value \in PodPhases
    => \E ph \in {status_value, ready_value} :
         /\ "events" \in fetched <=> ph \in {"Failed", "Pending"}
         /\ "logs" \in fetched <=> ph \in {"Running", "Succeeded", "Failed"}

(***************************************************************************)
(* C28: in every built resource spec, for every combination of the modes,  *)
(* either serve flag and every destination, the key defaultArtifactRoot is *)
(* present iff the emitted serveArtifacts is false.                        *)
(***************************************************************************)
C28_DefaultRootIffNotServing ==
    Built => (HasKey("defaultArtifactRoot") <=> mlflow_cr.spec.serveArtifacts = FALSE)

C28_Witness ==
    /\ Built
    /\ args.artifact_storage = "file"
    /\ args.artifacts_destination = "file:/mlflow"
    /\ args.serve_artifacts = "false"
    /\ mlflow_cr.spec.serveArtifacts = FALSE
    /\ mlflow_cr.spec.defaultArtifactRoot = "file:/mlflow/runs"

(***************************************************************************)
(* C31: after the create step of create_postgres_secret or                 *)
(* create_s3_secret, the cluster holds for that name either the content of *)
(* the current call or what it held before the call; in particular, when   *)
(* the create step fails, a secret that existed before the call is still   *)
(* present.                                                                *)
(***************************************************************************)
C31_FailedCreateKeepsSecret ==
    /\ pc \in {"sec_returned", "except"}
    /\ invocation = 1
    /\ Len(ops) > 0
    /\ ops[Len(ops)].op = "sec_create"
    => /\ secrets[secret_name] \in {Secret(SecretData(secret_name, args)),
                                    prior_secrets[secret_name]}
       /\ ops[Len(ops)].raised /\ prior_secrets[secret_name].present
            => secrets[secret_name].present

(***************************************************************************)
(* C32: cleanup_tls_certificates returns without raising, and a tls.key    *)
(* that exists is handed to unlink whether or not the removal of tls.crt   *)
(* succeeded: after the cleanup, a tls.key still on disk is one whose      *)
(* removal was attempted.                                                  *)
(***************************************************************************)
C32_KeyRemovalAlwaysAttempted ==
    pc \in {"exit", "exited"} =>
      /\ cleanup_count = 1
      /\ "tls.key" \in files => "tls.key" \in unlinked

====
